---- MODULE Spec2Model ----
(***************************************************************************)
(* Recipe extraction pipeline of norish: the orchestrator                  *)
(* parseRecipeFromUrl (src/server/parser/index.ts), the recipe-likelihood  *)
(* heuristic isPageLikelyRecipe, and the text AI extraction engine         *)
(* extractRecipeWithAI (src/unnamed/part_005) that the orchestrator calls. *)
(*                                                                         *)
(* One request of parseRecipeFromUrl is a process whose position is pc;    *)
(* every await of the function is one step.  A candidate recipe of a       *)
(* structured extractor is kept for as long as the function reads it.      *)
(***************************************************************************)
EXTENDS Integers, Sequences, FiniteSets, TLC

\* ------------------------------------------------------------------------
\* Bounds
\* ------------------------------------------------------------------------
\* longest fetched page, in characters
MaxPageLen == 2
\* most entries of one measurement system in a structured extractor's list
MaxItems == 1
\* most strings of one measurement system in a model payload
MaxPayload == 1
\* longest list of a model payload or of a normalizer result in a direct
\* call of an engine entry point
MaxDirectItems == 2
\* longest endpoint of a provider configuration, in characters
MaxEndpointLen == 4
\* most allergens in the list given to a prompt builder
MaxAllergies == 2

\* ------------------------------------------------------------------------
\* JavaScript values
\* ------------------------------------------------------------------------
Null == [t |-> "null"]
Undefined == [t |-> "undefined"]
Bool(b) == [t |-> "boolean", v |-> b]
\* a string (urls, ids, names); page texts are strings kept as character sequences
Str(s) == [t |-> "string", v |-> s]
Arr(q) == [t |-> "array", v |-> q]
Obj(r) == [t |-> "object", v |-> r]

\* truthiness of a value used as a condition (`x && ...`, `x ? a : b`, `!x`)
Truthy(x) ==
  CASE x.t = "null" -> FALSE
    [] x.t = "undefined" -> FALSE
    [] x.t = "boolean" -> x.v
    [] x.t = "string" -> Len(x.v) > 0
    [] OTHER -> TRUE

\* a ?? b
NullishCoalesce(a, b) == IF a.t \in {"null", "undefined"} THEN b ELSE a

\* Array.isArray(x)
IsArray(x) == x.t = "array"

\* x.length of a string or an array
JsLength(x) == Len(x.v)

\* !x?.length
NoLength(x) == IF x.t \in {"null", "undefined"} THEN TRUE ELSE JsLength(x) = 0

\* ------------------------------------------------------------------------
\* Pages and the recipe-likelihood heuristic
\* ------------------------------------------------------------------------
Alphabet == {"s", "A", "b"}

SeqsUpTo(S, n) == UNION {[1..k -> S] : k \in 0..n}

\* the page texts the fetch collaborator can deliver ("" is the empty page)
Pages == SeqsUpTo(Alphabet, MaxPageLen)

LowerChar(c) ==
  CASE c = "A" -> "a"
    [] c = "B" -> "b"
    [] c = "S" -> "s"
    [] c = "L" -> "l"
    [] c = "V" -> "v"
    [] OTHER -> c

toLowerCase(s) == [i \in 1..Len(s) |-> LowerChar(s[i])]

includes(s, sub) ==
  \E i \in 0..(Len(s) - Len(sub)) : SubSeq(s, i + 1, i + Len(sub)) = sub

\* the indicator lists the configuration collaborator can hold
IndicatorConfigs ==
  { [schemaIndicators |-> << <<"S">> >>,
     contentIndicators |-> << <<"a">>, <<"B">> >>],
    [schemaIndicators |-> << >>,
     contentIndicators |-> << <<"a">>, <<"s">>, <<"b", "B">> >>] }

\* the heuristic with the page left in its original case
isPageLikelyRecipe_NoLowercase(html, indicators) ==
  LET hasSchema ==
        \E k \in DOMAIN indicators.schemaIndicators :
          includes(html, toLowerCase(indicators.schemaIndicators[k]))
      hasContentHints ==
        Len(SelectSeq(indicators.contentIndicators,
                      LAMBDA i : includes(html, toLowerCase(i)))) >= 2
  IN  hasSchema \/ hasContentHints

isPageLikelyRecipe(html, indicators) ==
  LET lowered == toLowerCase(html)
      hasSchema ==
        \E k \in DOMAIN indicators.schemaIndicators :
          includes(lowered, toLowerCase(indicators.schemaIndicators[k]))
      hasContentHints ==
        Len(SelectSeq(indicators.contentIndicators,
                      LAMBDA i : includes(lowered, toLowerCase(i)))) >= 2
  IN  hasSchema \/ hasContentHints

\* ------------------------------------------------------------------------
\* Recipe records (FullRecipeInsertDTO)
\* ------------------------------------------------------------------------
\* One entry of recipeIngredients or steps: its measurement system, its
\* order index and the text it was built from.
Entry(sys, ord, txt) == [systemUsed |-> sys, order |-> ord, text |-> txt]

\* n entries of one system in the normalizer's numbering (0, 1, ..)
Run(sys, n) == [i \in 1..n |-> Entry(sys, i - 1, i)]

\* the ingredient / step lists a structured extractor can deliver: a field
\* that is absent, or metric entries followed by US entries
ExtractorLists ==
  {Undefined} \cup
  {Arr(Run("metric", i) \o Run("us", j)) : i \in 0..MaxItems, j \in 0..MaxItems}

\* tryExtractRecipeFromJsonLd / tryExtractRecipeFromMicrodata: a recipe or null
ExtractorOutputs ==
  {Null} \cup
  {Obj([url |-> Null, recipeIngredients |-> ri, steps |-> st]) :
     ri \in ExtractorLists, st \in ExtractorLists}

\* the usability test of the standard flow with `||` between the two lists
hasStepsAndIngredients_Either(parsed) ==
  /\ Truthy(parsed)
  /\ \/ IsArray(parsed.v.recipeIngredients) /\ JsLength(parsed.v.recipeIngredients) > 0
     \/ IsArray(parsed.v.steps) /\ JsLength(parsed.v.steps) > 0

\* lines 78-83 and 90-95: the usability test of the standard flow
hasStepsAndIngredients(parsed) ==
  /\ Truthy(parsed)
  /\ IsArray(parsed.v.recipeIngredients)
  /\ JsLength(parsed.v.recipeIngredients) > 0
  /\ IsArray(parsed.v.steps)
  /\ JsLength(parsed.v.steps) > 0

\* ------------------------------------------------------------------------
\* AI extraction engine (text entry point)
\* ------------------------------------------------------------------------
\* the two shapes of an AIResult, as the orchestrator reads them
aiSuccess(data) == [success |-> TRUE, data |-> data]
aiError(message, code) == [success |-> FALSE, error |-> message, code |-> code]

\* exceptions a collaborator of the engine can raise
Exceptions == {"TimeoutError", "Error"}

mapErrorToCode(error) ==
  CASE error = "TimeoutError" -> "TIMEOUT"
    [] OTHER -> "UNKNOWN"

getErrorMessage(code, message) == <<code, message>>

\* the string lists of a model payload: absent, or up to n strings
PayloadListsUpTo(n) == {Undefined} \cup {Arr([i \in 1..k |-> i]) : k \in 0..n}

PayloadLists == PayloadListsUpTo(MaxPayload)

\* result.output of generateText: null, undefined, an object with no keys,
\* or a payload
ModelOutputsOver(lists) ==
  {Null, Undefined, Obj([keys |-> 0])} \cup
  {Obj([keys |-> 3, name |-> nm,
        recipeIngredient |-> ri, recipeInstructions |-> st]) :
     nm \in {Undefined, Str(""), Str("Soup")},
     ri \in {Undefined} \cup {Obj([metric |-> m, us |-> u]) : m, u \in lists},
     st \in {Undefined} \cup {Obj([metric |-> m, us |-> u]) : m, u \in lists}}

ModelOutputs == ModelOutputsOver(PayloadLists)

\* x?.f
Opt(x, f) == IF x.t \in {"null", "undefined"} THEN Undefined ELSE x.v[f]

\* what normalizeRecipeFromJson can deliver for a metric version: null, or
\* a recipe whose lists are absent or hold metric entries
NormalizerListsUpTo(n) == {Undefined} \cup {Arr(Run("metric", k)) : k \in 0..n}

NormalizerLists == NormalizerListsUpTo(MaxPayload)

NormalizerOutputsOver(lists) ==
  {Null} \cup
  {Obj([url |-> Null, recipeIngredients |-> ri, steps |-> st]) :
     ri \in lists, st \in lists}

NormalizerOutputs == NormalizerOutputsOver(NormalizerLists)

\* Array.prototype.join with the first element only
join_FirstOnly(list, sep) == list[1]

\* list.join(sep) of a non-empty list of strings
RECURSIVE join(_, _)
join(list, sep) ==
  IF Len(list) = 1
  THEN list[1]
  ELSE list[1] \o sep \o join(Tail(list), sep)

\* the separator of the allergen list in the prompt
commaSpace == <<",", " ">>

\* buildExtractionPrompt: the prompt, or the TypeError of calling join on a
\* value that is not an array
buildExtractionPrompt(url, html, allergies) ==
  IF Truthy(allergies) /\ JsLength(allergies) > 0
  THEN IF IsArray(allergies)
       THEN [thrown |-> FALSE,
             prompt |-> [allergyInstruction |->
                           [wording |-> "STRICT",
                            list |-> join(allergies.v, commaSpace)],
                         urlLine |-> IF Truthy(url) THEN <<url>> ELSE << >>,
                         webpageText |-> html]]
       ELSE [thrown |-> TRUE, error |-> "TypeError"]
  ELSE [thrown |-> FALSE,
        prompt |-> [allergyInstruction |-> [wording |-> "SKIP", list |-> << >>],
                    urlLine |-> IF Truthy(url) THEN <<url>> ELSE << >>,
                    webpageText |-> html]]

\* the payloads with a name and four non-empty lists: the ones for which
\* the answers of the later collaborators are enumerated
ValidOutputsOver(lists) ==
  LET nonEmpty == {l \in lists : IsArray(l) /\ JsLength(l) > 0}
  IN  {Obj([keys |-> 3, name |-> Str("Soup"),
            recipeIngredient |-> Obj([metric |-> m1, us |-> u1]),
            recipeInstructions |-> Obj([metric |-> m2, us |-> u2])]) :
         m1 \in nonEmpty, u1 \in nonEmpty, m2 \in nonEmpty, u2 \in nonEmpty}

ValidOutputs == ValidOutputsOver(PayloadLists)

\* What the engine's collaborators do in one call: the collaborator that
\* raises (if any) and its exception, the model's structured output and the
\* normalizer's result.
EnvsFor(outputs, valid, normalizerOutputs) ==
  {[throwAt |-> p, exc |-> e, output |-> Null, normalized |-> Null] :
     p \in {"getModels", "getGenerationSettings", "loadPrompt", "generateText"},
     e \in Exceptions}
  \cup
  {[throwAt |-> "none", exc |-> "none", output |-> o, normalized |-> Null] :
     o \in outputs}
  \cup
  {[throwAt |-> "normalizeRecipeFromJson", exc |-> e, output |-> o, normalized |-> Null] :
     o \in valid, e \in Exceptions}
  \cup
  {[throwAt |-> p, exc |-> e, output |-> o, normalized |-> n] :
     p \in {"getUnits", "parseIngredientWithDefaults"}, e \in Exceptions,
     o \in valid, n \in normalizerOutputs \ {Null}}
  \cup
  {[throwAt |-> "none", exc |-> "none", output |-> o, normalized |-> n] :
     o \in valid, n \in normalizerOutputs \ {Null}}

EngineEnvs == EnvsFor(ModelOutputs, ValidOutputs, NormalizerOutputs)

\* the empty-response test with the no-keys half left out
isEmptyResponse_NullOnly(jsonLd) == ~Truthy(jsonLd)

\* the empty-response test: no output, or an object with no keys
isEmptyResponse(jsonLd) == ~Truthy(jsonLd) \/ jsonLd.v.keys = 0

\* parseIngredientWithDefaults: one parsed ingredient per string, in order
parseIngredientWithDefaults(strings) ==
  [i \in 1..Len(strings) |-> [description |-> strings[i]]]

\* the US ingredient entries: usIngredients.map((ing, i) => ({.., order: i}))
usIngredientEntries(parsed) ==
  [i \in 1..Len(parsed) |-> Entry("us", i - 1, parsed[i].description)]

\* usSteps: us.map((step, i) => ({step, order: i + 1, systemUsed: "us"}))
usStepEntries(usInstr) ==
  [i \in 1..Len(usInstr) |-> Entry("us", (i - 1) + 1, usInstr[i])]

\* the unified lists with the US entries put first
combineSystems_UsFirst(normalized, usIngredients, usSteps) ==
  [recipeIngredients |->
     Arr(usIngredients \o NullishCoalesce(normalized.v.recipeIngredients, Arr(<< >>)).v),
   steps |->
     Arr(usSteps \o NullishCoalesce(normalized.v.steps, Arr(<< >>)).v)]

\* the unified lists: the normalizer's entries followed by the US entries
combineSystems(normalized, usIngredients, usSteps) ==
  [recipeIngredients |->
     Arr(NullishCoalesce(normalized.v.recipeIngredients, Arr(<< >>)).v \o usIngredients),
   steps |->
     Arr(NullishCoalesce(normalized.v.steps, Arr(<< >>)).v \o usSteps)]

\* the recipe of a success result: the unified lists and the url
combinedRecipe(normalized, jsonLd, urlValue) ==
  LET parsed == parseIngredientWithDefaults(jsonLd.v.recipeIngredient.v.us.v)
      lists == combineSystems(normalized, usIngredientEntries(parsed),
                              usStepEntries(jsonLd.v.recipeInstructions.v.us.v))
  IN  Obj([url |-> urlValue,
           recipeIngredients |-> lists.recipeIngredients,
           steps |-> lists.steps])

\* a catch block that lets the exception go on to the caller
Caught_Rethrow(error) == [thrown |-> error]

\* the catch block of the engine
Caught(error) ==
  LET code == mapErrorToCode(error)
  IN  aiError(getErrorMessage(code, error), code)

\* the guard with the enabled flag ignored
aiDisabled_Never(aiEnabled) == FALSE

\* the guard of both entry points: !(await isAIEnabled())
aiDisabled(aiEnabled) == ~aiEnabled

\* o.f of an object: the property, or undefined when the object has none
Prop(o, f) == IF f \in DOMAIN o.v THEN o.v[f] ELSE Undefined

\* the validation with the name and the metric lists only
MissingRequiredFields_MetricOnly(jsonLd) ==
  \/ ~Truthy(Prop(jsonLd, "name"))
  \/ NoLength(Opt(Prop(jsonLd, "recipeIngredient"), "metric"))
  \/ NoLength(Opt(Prop(jsonLd, "recipeInstructions"), "metric"))

\* the required-field validation of the engine
MissingRequiredFields(jsonLd) ==
  \/ ~Truthy(Prop(jsonLd, "name"))
  \/ NoLength(Opt(Prop(jsonLd, "recipeIngredient"), "metric"))
  \/ NoLength(Opt(Prop(jsonLd, "recipeIngredient"), "us"))
  \/ NoLength(Opt(Prop(jsonLd, "recipeInstructions"), "metric"))
  \/ NoLength(Opt(Prop(jsonLd, "recipeInstructions"), "us"))

\* extractRecipeWithAI(html, url, allergies): the AIResult and the
\* collaborator calls made, in order.  aiEnabled is what isAIEnabled()
\* answers at the guard.
extractRecipeWithAI(html, url, allergies, aiEnabled, env) ==
  LET built == buildExtractionPrompt(url, html, allergies)
      jsonLd == env.output
      normalized == env.normalized
      c1 == <<"isAIEnabled">>
      c2 == Append(c1, "getModels")
      c3 == Append(c2, "getGenerationSettings")
      c4 == Append(c3, "loadPrompt")
      c5 == Append(c4, "generateText")
      c6 == Append(c5, "normalizeRecipeFromJson")
      c7 == Append(c6, "getUnits")
      c8 == Append(c7, "parseIngredientWithDefaults")
  IN  IF aiDisabled(aiEnabled)
      THEN [result |-> aiError("AI features are disabled", "AI_DISABLED"), calls |-> c1]
      ELSE IF env.throwAt = "getModels"
      THEN [result |-> Caught(env.exc), calls |-> c2]
      ELSE IF env.throwAt = "getGenerationSettings"
      THEN [result |-> Caught(env.exc), calls |-> c3]
      ELSE IF env.throwAt = "loadPrompt"
      THEN [result |-> Caught(env.exc), calls |-> c4]
      ELSE IF built.thrown
      THEN [result |-> Caught(built.error), calls |-> c4]
      ELSE IF env.throwAt = "generateText"
      THEN [result |-> Caught(env.exc), calls |-> c5]
      ELSE IF isEmptyResponse(jsonLd)
      THEN [result |-> aiError("AI returned empty response", "EMPTY_RESPONSE"),
            calls |-> c5]
      ELSE IF MissingRequiredFields(jsonLd)
      THEN [result |-> aiError("Recipe extraction failed - missing required fields",
                               "VALIDATION_ERROR"),
            calls |-> c5]
      ELSE IF env.throwAt = "normalizeRecipeFromJson"
      THEN [result |-> Caught(env.exc), calls |-> c6]
      ELSE IF ~Truthy(normalized)
      THEN [result |-> aiError("Failed to normalize recipe data", "VALIDATION_ERROR"),
            calls |-> c6]
      ELSE IF env.throwAt = "getUnits"
      THEN [result |-> Caught(env.exc), calls |-> c7]
      ELSE IF env.throwAt = "parseIngredientWithDefaults"
      THEN [result |-> Caught(env.exc), calls |-> c8]
      ELSE [result |-> aiSuccess(combinedRecipe(normalized, jsonLd,
                                                NullishCoalesce(url, Null))),
            calls |-> c8]

\* ------------------------------------------------------------------------
\* AI extraction engine (image entry point)
\* ------------------------------------------------------------------------
\* the image lists a caller can pass
FileLists == {<< >>, <<"page-1">>, <<"page-1", "page-2">>}

\* buildImageExtractionPrompt: the adapted base prompt with the allergy
\* instruction, or the TypeError of calling join on a value that is not an
\* array
buildImageExtractionPrompt(allergies) ==
  IF Truthy(allergies) /\ JsLength(allergies) > 0
  THEN IF IsArray(allergies)
       THEN [thrown |-> FALSE,
             prompt |-> [allergyInstruction |->
                           [wording |-> "ONLY",
                            list |-> join(allergies.v, commaSpace)]]]
       ELSE [thrown |-> TRUE, error |-> "TypeError"]
  ELSE [thrown |-> FALSE,
        prompt |-> [allergyInstruction |-> [wording |-> "SKIP", list |-> << >>]]]

\* the empty-list test of the image entry point left out
noImages_Never(files) == FALSE

\* files.length === 0
noImages(files) == Len(files) = 0

\* extractRecipeFromImages(files, allergies): the AIResult and the
\* collaborator calls made, in order
extractRecipeFromImages(files, allergies, aiEnabled, env) ==
  LET built == buildImageExtractionPrompt(allergies)
      jsonLd == env.output
      normalized == env.normalized
      c1 == <<"isAIEnabled">>
      c2 == Append(c1, "getModels")
      c3 == Append(c2, "getGenerationSettings")
      c4 == Append(c3, "loadPrompt")
      c5 == Append(c4, "generateText")
      c6 == Append(c5, "normalizeRecipeFromJson")
      c7 == Append(c6, "getUnits")
      c8 == Append(c7, "parseIngredientWithDefaults")
  IN  IF aiDisabled(aiEnabled)
      THEN [result |-> aiError("AI features are disabled", "AI_DISABLED"), calls |-> c1]
      ELSE IF noImages(files)
      THEN [result |-> aiError("No images provided", "INVALID_INPUT"), calls |-> c1]
      ELSE IF env.throwAt = "getModels"
      THEN [result |-> Caught(env.exc), calls |-> c2]
      ELSE IF env.throwAt = "getGenerationSettings"
      THEN [result |-> Caught(env.exc), calls |-> c3]
      ELSE IF env.throwAt = "loadPrompt"
      THEN [result |-> Caught(env.exc), calls |-> c4]
      ELSE IF built.thrown
      THEN [result |-> Caught(built.error), calls |-> c4]
      ELSE IF env.throwAt = "generateText"
      THEN [result |-> Caught(env.exc), calls |-> c5]
      ELSE IF isEmptyResponse(jsonLd)
      THEN [result |-> aiError("AI returned empty response", "EMPTY_RESPONSE"),
            calls |-> c5]
      ELSE IF MissingRequiredFields(jsonLd)
      THEN [result |-> aiError("Recipe extraction failed - missing required fields",
                               "VALIDATION_ERROR"),
            calls |-> c5]
      ELSE IF env.throwAt = "normalizeRecipeFromJson"
      THEN [result |-> Caught(env.exc), calls |-> c6]
      ELSE IF ~Truthy(normalized)
      THEN [result |-> aiError("Failed to normalize recipe data", "VALIDATION_ERROR"),
            calls |-> c6]
      ELSE IF env.throwAt = "getUnits"
      THEN [result |-> Caught(env.exc), calls |-> c7]
      ELSE IF env.throwAt = "parseIngredientWithDefaults"
      THEN [result |-> Caught(env.exc), calls |-> c8]
      ELSE [result |-> aiSuccess(combinedRecipe(normalized, jsonLd, Null)),
            calls |-> c8]

\* ------------------------------------------------------------------------
\* The orchestrator: one request of parseRecipeFromUrl
\* ------------------------------------------------------------------------
VARIABLES
  url,          \* argument url
  forceAI,      \* argument forceAI: a boolean or undefined
  allergies,    \* argument allergies: an array of strings or undefined
  cfg,          \* the server configuration (administrator managed)
  pc,           \* position of the request in parseRecipeFromUrl
  html,         \* local html
  isRecipe,     \* local isRecipe
  useAIOnly,    \* local useAIOnly
  aiEnabled,    \* local aiEnabled (declared in either branch)
  jsonLdParsed, \* local jsonLdParsed, while in use (lines 77-87)
  containsStepsAndIngredients,      \* local of lines 78-83
  microParsed,  \* local microParsed, while in use (lines 89-99)
  containsMicroStepsAndIngredients, \* local of lines 90-95
  aiResult,     \* local aiResult
  aiArgs,       \* the arguments the engine was called with, by parameter
  calls,        \* the collaborators invoked so far, in order
  outcome,      \* how the request ended: a returned result or a thrown error
  direct        \* a call made straight to an engine entry point or to the
                \* provider registry by another caller, and what it gave

vars == <<url, forceAI, allergies, cfg, pc, html, isRecipe, useAIOnly, aiEnabled,
          jsonLdParsed, containsStepsAndIngredients, microParsed,
          containsMicroStepsAndIngredients, aiResult, aiArgs, calls, outcome,
          direct>>

\* the locals of the standard flow
flags == <<containsStepsAndIngredients, containsMicroStepsAndIngredients>>

recipeId == "recipe-1"

\* urls a caller can pass
Urls == {"", "https://example.com/soup", "https://youtube.com/watch"}

\* isVideoUrl: the url matches a known video-platform pattern
isVideoUrl(u) == u \in {"https://youtube.com/watch"}

AllergyLists == {Undefined, Arr(<<"nuts">>)}

Configs ==
  [aiEnabled : BOOLEAN, alwaysUseAI : BOOLEAN, videoParsingEnabled : BOOLEAN,
   indicators : IndicatorConfigs]

Pending == [kind |-> "pending"]
Returned(recipe, usedAI) == [kind |-> "return", recipe |-> recipe, usedAI |-> usedAI]
Thrown(error) == [kind |-> "throw", error |-> error]

\* what processVideoRecipe can do: deliver a recipe or raise
VideoRecipe ==
  Obj([url |-> Str("https://youtube.com/watch"),
       recipeIngredients |-> Arr(Run("metric", 1) \o Run("us", 1)),
       steps |-> Arr(Run("metric", 1) \o Run("us", 1))])

\* no direct call is going on
NoDirectCall == [fn |-> "none"]

Init ==
  /\ url \in Urls
  /\ forceAI \in {Undefined, Bool(TRUE), Bool(FALSE)}
  /\ allergies \in AllergyLists
  /\ cfg \in Configs
  /\ pc = "isVideoUrl"
  /\ html = Undefined
  /\ isRecipe = FALSE
  /\ useAIOnly = FALSE
  /\ aiEnabled = FALSE
  /\ jsonLdParsed = Undefined
  /\ containsStepsAndIngredients = FALSE
  /\ microParsed = Undefined
  /\ containsMicroStepsAndIngredients = FALSE
  /\ aiResult = Undefined
  /\ aiArgs = Undefined
  /\ calls = << >>
  /\ outcome = Pending
  /\ direct = NoDirectCall

Err(message) == [message |-> message]

\* lines 28: isVideoUrl(url)
ClassifyUrl ==
  /\ pc = "isVideoUrl"
  /\ calls' = Append(calls, "isVideoUrl")
  /\ pc' = IF isVideoUrl(url) THEN "isVideoParsingEnabled" ELSE "fetchViaPlaywright"
  /\ UNCHANGED <<direct, url, forceAI, allergies, cfg, html, isRecipe, useAIOnly, aiEnabled,
                 jsonLdParsed, microParsed, aiResult, aiArgs, outcome, flags>>

\* the video gate without the check of the setting
VideoGate_NoCheck ==
  /\ pc = "isVideoParsingEnabled"
  /\ calls' = Append(calls, "isVideoParsingEnabled")
  /\ outcome' = outcome
  /\ pc' = "processVideoRecipe"
  /\ UNCHANGED <<direct, url, forceAI, allergies, cfg, html, isRecipe, useAIOnly, aiEnabled,
                 jsonLdParsed, microParsed, aiResult, aiArgs, flags>>

\* lines 29-33: the video gate
VideoGate ==
  /\ pc = "isVideoParsingEnabled"
  /\ calls' = Append(calls, "isVideoParsingEnabled")
  /\ IF ~cfg.videoParsingEnabled
     THEN /\ outcome' = Thrown(Err("Video recipe parsing is not enabled."))
          /\ pc' = "done"
     ELSE /\ outcome' = outcome
          /\ pc' = "processVideoRecipe"
  /\ UNCHANGED <<direct, url, forceAI, allergies, cfg, html, isRecipe, useAIOnly, aiEnabled,
                 jsonLdParsed, microParsed, aiResult, aiArgs, flags>>

\* the video step going on to the web path when the processor raises
ProcessVideo_SwallowError ==
  /\ pc = "processVideoRecipe"
  /\ calls' = Append(calls, "processVideoRecipe")
  /\ \E r \in {"recipe"} \cup Exceptions :
       IF r = "recipe"
       THEN outcome' = Returned(VideoRecipe, TRUE) /\ pc' = "done"
       ELSE outcome' = outcome /\ pc' = "fetchViaPlaywright"
  /\ UNCHANGED <<direct, url, forceAI, allergies, cfg, html, isRecipe, useAIOnly, aiEnabled,
                 jsonLdParsed, microParsed, aiResult, aiArgs, flags>>

\* lines 35-43: delegate to the video processor; its error is rethrown
ProcessVideo ==
  /\ pc = "processVideoRecipe"
  /\ calls' = Append(calls, "processVideoRecipe")
  /\ \E r \in {"recipe"} \cup Exceptions :
       outcome' = IF r = "recipe" THEN Returned(VideoRecipe, TRUE) ELSE Thrown(Err(r))
  /\ pc' = "done"
  /\ UNCHANGED <<direct, url, forceAI, allergies, cfg, html, isRecipe, useAIOnly, aiEnabled,
                 jsonLdParsed, microParsed, aiResult, aiArgs, flags>>

\* the fetch step failing on a null page only (`html === null`)
Fetch_NullOnly ==
  /\ pc = "fetchViaPlaywright"
  /\ calls' = Append(calls, "fetchViaPlaywright")
  /\ \E h \in {Null} \cup {Str(p) : p \in Pages} :
       /\ html' = h
       /\ IF h.t = "null"
          THEN /\ outcome' = Thrown(Err("Cannot fetch recipe page."))
               /\ pc' = "done"
          ELSE /\ outcome' = outcome
               /\ pc' = "isPageLikelyRecipe"
  /\ UNCHANGED <<direct, url, forceAI, allergies, cfg, isRecipe, useAIOnly, aiEnabled,
                 jsonLdParsed, microParsed, aiResult, aiArgs, flags>>

\* the fetch step trying a second time when the first fetch gave no page
Fetch_RetryOnce ==
  /\ pc = "fetchViaPlaywright"
  /\ calls' = Append(calls, "fetchViaPlaywright")
  /\ \E h \in {Null} \cup {Str(p) : p \in Pages} :
       /\ html' = h
       /\ IF ~Truthy(h)
          THEN IF \E i \in DOMAIN calls : calls[i] = "fetchViaPlaywright"
               THEN /\ outcome' = Thrown(Err("Cannot fetch recipe page."))
                    /\ pc' = "done"
               ELSE /\ outcome' = outcome
                    /\ pc' = "fetchViaPlaywright"
          ELSE /\ outcome' = outcome
               /\ pc' = "isPageLikelyRecipe"
  /\ UNCHANGED <<direct, url, forceAI, allergies, cfg, isRecipe, useAIOnly, aiEnabled,
                 jsonLdParsed, microParsed, aiResult, aiArgs, flags>>

\* lines 46-48: fetch the page
Fetch ==
  /\ pc = "fetchViaPlaywright"
  /\ calls' = Append(calls, "fetchViaPlaywright")
  /\ \E h \in {Null} \cup {Str(p) : p \in Pages} :
       /\ html' = h
       /\ IF ~Truthy(h)
          THEN /\ outcome' = Thrown(Err("Cannot fetch recipe page."))
               /\ pc' = "done"
          ELSE /\ outcome' = outcome
               /\ pc' = "isPageLikelyRecipe"
  /\ UNCHANGED <<direct, url, forceAI, allergies, cfg, isRecipe, useAIOnly, aiEnabled,
                 jsonLdParsed, microParsed, aiResult, aiArgs, flags>>

\* lines 50-54: the recipe-likelihood gate
Heuristic ==
  /\ pc = "isPageLikelyRecipe"
  /\ calls' = Append(calls, "isPageLikelyRecipe")
  /\ isRecipe' = isPageLikelyRecipe(html.v, cfg.indicators)
  /\ IF ~isRecipe'
     THEN /\ outcome' = Thrown(Err("Page does not appear to contain a recipe."))
          /\ pc' = "done"
     ELSE /\ outcome' = outcome
          /\ pc' = "useAIOnly"
  /\ UNCHANGED <<direct, url, forceAI, allergies, cfg, html, useAIOnly, aiEnabled,
                 jsonLdParsed, microParsed, aiResult, aiArgs, flags>>

\* line 57: forceAI ?? (await shouldAlwaysUseAI())
DecideUseAIOnly(f, always) == NullishCoalesce(f, Bool(always)).v

\* lines 56-59: AI-only mode or standard flow
DecideMode ==
  /\ pc = "useAIOnly"
  /\ calls' = IF forceAI.t \in {"null", "undefined"}
              THEN Append(calls, "shouldAlwaysUseAI") ELSE calls
  /\ useAIOnly' = DecideUseAIOnly(forceAI, cfg.alwaysUseAI)
  /\ pc' = IF useAIOnly' THEN "aiOnly_isAIEnabled" ELSE "tryExtractRecipeFromJsonLd"
  /\ UNCHANGED <<direct, url, forceAI, allergies, cfg, html, isRecipe, aiEnabled,
                 jsonLdParsed, microParsed, aiResult, aiArgs, outcome, flags>>

\* the AI-only gate without the check of the setting
AIOnlyGate_NoCheck ==
  /\ pc = "aiOnly_isAIEnabled"
  /\ calls' = Append(calls, "isAIEnabled")
  /\ aiEnabled' = cfg.aiEnabled
  /\ outcome' = outcome
  /\ pc' = "aiOnly_extractRecipeWithAI"
  /\ UNCHANGED <<direct, url, forceAI, allergies, cfg, html, isRecipe, useAIOnly,
                 jsonLdParsed, microParsed, aiResult, aiArgs, flags>>

\* lines 60-65: AI-only mode requires AI to be enabled
AIOnlyGate ==
  /\ pc = "aiOnly_isAIEnabled"
  /\ calls' = Append(calls, "isAIEnabled")
  /\ aiEnabled' = cfg.aiEnabled
  /\ IF ~aiEnabled'
     THEN /\ outcome' = Thrown(Err("AI-only import requested but AI is not enabled."))
          /\ pc' = "done"
     ELSE /\ outcome' = outcome
          /\ pc' = "aiOnly_extractRecipeWithAI"
  /\ UNCHANGED <<direct, url, forceAI, allergies, cfg, html, isRecipe, useAIOnly,
                 jsonLdParsed, microParsed, aiResult, aiArgs, flags>>

\* the call extractRecipeWithAI(html, recipeId, url, allergies) of lines 67
\* and 106: the arguments bind to the engine's parameters (html, url,
\* allergies) by position, and a fourth argument is dropped
EngineArgs == [html |-> html, url |-> Str(recipeId), allergies |-> Str(url)]

\* lines 69-73: the end of an AI-only request
AIOnlyOutcome(r) ==
  IF r.success
  THEN Returned(r.data, TRUE)
  ELSE Thrown([message |-> "AI extraction failed: ", detail |-> r.error])

\* the end of a fallback request that reports the engine's failure as the
\* AI-only branch does
FallbackOutcome_AsAIOnly(r) == AIOnlyOutcome(r)

\* lines 108-116: the end of a request that fell back to the engine
FallbackOutcome(r) ==
  IF r.success
  THEN Returned(r.data, TRUE)
  ELSE Thrown(Err("Cannot parse recipe."))

\* lines 67-73: AI-only extraction
AIOnlyExtract ==
  /\ pc = "aiOnly_extractRecipeWithAI"
  /\ aiArgs' = EngineArgs
  /\ \E env \in EngineEnvs :
       LET r == extractRecipeWithAI(aiArgs'.html, aiArgs'.url, aiArgs'.allergies,
                                    cfg.aiEnabled, env)
       IN  /\ aiResult' = r.result
           /\ calls' = Append(calls, "extractRecipeWithAI") \o r.calls
  /\ outcome' = AIOnlyOutcome(aiResult')
  /\ pc' = "done"
  /\ UNCHANGED <<direct, url, forceAI, allergies, cfg, html, isRecipe, useAIOnly, aiEnabled,
                 jsonLdParsed, microParsed, flags>>

\* the JSON-LD step without its early return
JsonLd_FallThrough ==
  /\ pc = "tryExtractRecipeFromJsonLd"
  /\ calls' = Append(calls, "tryExtractRecipeFromJsonLd")
  /\ \E out \in ExtractorOutputs : jsonLdParsed' = out
  /\ containsStepsAndIngredients' = hasStepsAndIngredients(jsonLdParsed')
  /\ outcome' = outcome
  /\ pc' = "tryExtractRecipeFromMicrodata"
  /\ UNCHANGED <<direct, url, forceAI, allergies, cfg, html, isRecipe, useAIOnly, aiEnabled,
                 microParsed, containsMicroStepsAndIngredients, aiResult, aiArgs>>

\* lines 77-87: the JSON-LD extractor
JsonLd ==
  /\ pc = "tryExtractRecipeFromJsonLd"
  /\ calls' = Append(calls, "tryExtractRecipeFromJsonLd")
  /\ \E out \in ExtractorOutputs : jsonLdParsed' = out
  /\ containsStepsAndIngredients' = hasStepsAndIngredients(jsonLdParsed')
  /\ IF containsStepsAndIngredients'
     THEN /\ outcome' = Returned(jsonLdParsed', FALSE)
          /\ pc' = "done"
     ELSE /\ outcome' = outcome
          /\ pc' = "tryExtractRecipeFromMicrodata"
  /\ UNCHANGED <<direct, url, forceAI, allergies, cfg, html, isRecipe, useAIOnly, aiEnabled,
                 microParsed, containsMicroStepsAndIngredients, aiResult, aiArgs>>

\* the microdata step without its early return
Microdata_FallThrough ==
  /\ pc = "tryExtractRecipeFromMicrodata"
  /\ calls' = Append(calls, "tryExtractRecipeFromMicrodata")
  /\ \E out \in ExtractorOutputs : microParsed' = out
  /\ containsMicroStepsAndIngredients' = hasStepsAndIngredients(microParsed')
  /\ outcome' = outcome
  /\ pc' = "fallback_isAIEnabled"
  /\ jsonLdParsed' = Undefined
  /\ UNCHANGED <<direct, url, forceAI, allergies, cfg, html, isRecipe, useAIOnly, aiEnabled,
                 containsStepsAndIngredients, aiResult, aiArgs>>

\* lines 89-99: the microdata extractor
Microdata ==
  /\ pc = "tryExtractRecipeFromMicrodata"
  /\ calls' = Append(calls, "tryExtractRecipeFromMicrodata")
  /\ \E out \in ExtractorOutputs : microParsed' = out
  /\ containsMicroStepsAndIngredients' = hasStepsAndIngredients(microParsed')
  /\ IF containsMicroStepsAndIngredients'
     THEN /\ outcome' = Returned(microParsed', FALSE)
          /\ pc' = "done"
     ELSE /\ outcome' = outcome
          /\ pc' = "fallback_isAIEnabled"
  /\ jsonLdParsed' = Undefined
  /\ UNCHANGED <<direct, url, forceAI, allergies, cfg, html, isRecipe, useAIOnly, aiEnabled,
                 containsStepsAndIngredients, aiResult, aiArgs>>

\* the fallback gate without the check of the setting
FallbackGate_NoCheck ==
  /\ pc = "fallback_isAIEnabled"
  /\ calls' = Append(calls, "isAIEnabled")
  /\ aiEnabled' = cfg.aiEnabled
  /\ outcome' = outcome
  /\ pc' = "fallback_extractRecipeWithAI"
  /\ microParsed' = Undefined
  /\ UNCHANGED <<direct, url, forceAI, allergies, cfg, html, isRecipe, useAIOnly,
                 jsonLdParsed, aiResult, aiArgs, flags>>

\* lines 101-104 and 115-116: the AI fallback only when AI is enabled
FallbackGate ==
  /\ pc = "fallback_isAIEnabled"
  /\ calls' = Append(calls, "isAIEnabled")
  /\ aiEnabled' = cfg.aiEnabled
  /\ IF aiEnabled'
     THEN /\ outcome' = outcome
          /\ pc' = "fallback_extractRecipeWithAI"
     ELSE /\ outcome' = Thrown(Err("Cannot parse recipe."))
          /\ pc' = "done"
  /\ microParsed' = Undefined
  /\ UNCHANGED <<direct, url, forceAI, allergies, cfg, html, isRecipe, useAIOnly,
                 jsonLdParsed, aiResult, aiArgs, flags>>

\* lines 105-116: the AI fallback
FallbackExtract ==
  /\ pc = "fallback_extractRecipeWithAI"
  /\ aiArgs' = EngineArgs
  /\ \E env \in EngineEnvs :
       LET r == extractRecipeWithAI(aiArgs'.html, aiArgs'.url, aiArgs'.allergies,
                                    cfg.aiEnabled, env)
       IN  /\ aiResult' = r.result
           /\ calls' = Append(calls, "extractRecipeWithAI") \o r.calls
  /\ outcome' = FallbackOutcome(aiResult')
  /\ pc' = "done"
  /\ UNCHANGED <<direct, url, forceAI, allergies, cfg, html, isRecipe, useAIOnly, aiEnabled,
                 jsonLdParsed, microParsed, flags>>

Next ==
  \/ ClassifyUrl
  \/ VideoGate
  \/ ProcessVideo
  \/ Fetch
  \/ Heuristic
  \/ DecideMode
  \/ AIOnlyGate
  \/ AIOnlyExtract
  \/ JsonLd
  \/ Microdata
  \/ FallbackGate
  \/ FallbackExtract

Spec == Init /\ [][Next]_vars

\* ------------------------------------------------------------------------
\* Properties of the orchestrator
\* ------------------------------------------------------------------------
Called(name) == \E i \in DOMAIN calls : calls[i] = name

CountCalls(name) == Cardinality({i \in DOMAIN calls : calls[i] = name})

\* every invocation of `later` comes after an invocation of `earlier`
Precedes(earlier, later) ==
  \A j \in DOMAIN calls :
    calls[j] = later => \E i \in 1..(j - 1) : calls[i] = earlier

\* the page was fetched, passed the heuristic, and the mode has been decided
ModeDecided == isRecipe /\ pc # "useAIOnly"
StandardFlow == ModeDecided /\ ~useAIOnly
AIOnlyMode == ModeDecided /\ useAIOnly

\* the list holds an entry of the measurement system
HasSystem(list, sys) ==
  /\ list.t = "array"
  /\ \E i \in DOMAIN list.v : list.v[i].systemUsed = sys

\* ingredient data and instruction data for both measurement systems
BothSystemsComplete(r) ==
  /\ r.t = "object"
  /\ \A sys \in {"metric", "us"} :
       HasSystem(r.v.recipeIngredients, sys) /\ HasSystem(r.v.steps, sys)

\* at least one ingredient and at least one step, of whichever system
HasIngredientsAndSteps(r) ==
  /\ r.t = "object"
  /\ r.v.recipeIngredients.t = "array"
  /\ r.v.steps.t = "array"
  /\ \E i \in DOMAIN r.v.recipeIngredients.v : TRUE
  /\ \E i \in DOMAIN r.v.steps.v : TRUE

NoStrategyInvoked ==
  /\ ~Called("tryExtractRecipeFromJsonLd")
  /\ ~Called("tryExtractRecipeFromMicrodata")
  /\ ~Called("extractRecipeWithAI")
  /\ ~Called("generateText")

C2_ScenarioA ==
  (jsonLdParsed # Undefined /\ BothSystemsComplete(jsonLdParsed))
    => /\ pc = "done"
       /\ outcome = Returned(jsonLdParsed, FALSE)
       /\ ~Called("tryExtractRecipeFromMicrodata")
       /\ ~Called("extractRecipeWithAI")
       /\ ~Called("generateText")

C2_Witness ==
  /\ pc = "done"
  /\ Called("tryExtractRecipeFromJsonLd")
  /\ BothSystemsComplete(jsonLdParsed)
  /\ outcome.kind = "return"
  /\ cfg.aiEnabled

\* C3: in the standard flow the strategies are tried in the order JSON-LD,
\* microdata, AI: microdata is invoked only after JSON-LD was invoked and
\* judged unusable, and the AI engine only after both structured extractors
\* were invoked and both judged unusable.
C3_StrategyOrder ==
  /\ Called("tryExtractRecipeFromMicrodata")
       => /\ Precedes("tryExtractRecipeFromJsonLd", "tryExtractRecipeFromMicrodata")
          /\ ~containsStepsAndIngredients
  /\ (~useAIOnly /\ Called("extractRecipeWithAI"))
       => /\ Precedes("tryExtractRecipeFromJsonLd", "tryExtractRecipeFromMicrodata")
          /\ Precedes("tryExtractRecipeFromMicrodata", "extractRecipeWithAI")
          /\ ~containsStepsAndIngredients
          /\ ~containsMicroStepsAndIngredients

C3_Witness ==
  /\ StandardFlow
  /\ Called("tryExtractRecipeFromJsonLd")
  /\ Called("tryExtractRecipeFromMicrodata")
  /\ Called("extractRecipeWithAI")
  /\ pc = "done"

\* the standard flow has judged both structured extractors' outputs unusable
BothUnusable ==
  /\ StandardFlow
  /\ Called("tryExtractRecipeFromJsonLd")
  /\ Called("tryExtractRecipeFromMicrodata")
  /\ ~containsStepsAndIngredients
  /\ ~containsMicroStepsAndIngredients

\* C4 (Scenario C): in the standard flow, when both structured extractors'
\* outputs were judged unusable and AI is disabled, the request ends in the
\* failure "Cannot parse recipe." and the AI engine (hence the model call)
\* is never invoked.
C4_ScenarioC ==
  (BothUnusable /\ ~cfg.aiEnabled /\ pc # "fallback_isAIEnabled")
    => /\ pc = "done"
       /\ outcome = Thrown(Err("Cannot parse recipe."))
       /\ ~Called("extractRecipeWithAI")
       /\ ~Called("generateText")

C4_Witness ==
  /\ BothUnusable
  /\ ~cfg.aiEnabled
  /\ pc = "done"
  /\ outcome.kind = "throw"

\* C5 (Scenario D): when AI-only mode is in effect and AI is disabled, the
\* request fails with the AI-not-enabled error and neither structured
\* extractor nor the AI engine is invoked.
C5_ScenarioD ==
  (AIOnlyMode /\ ~cfg.aiEnabled /\ pc # "aiOnly_isAIEnabled")
    => /\ pc = "done"
       /\ outcome = Thrown(Err("AI-only import requested but AI is not enabled."))
       /\ NoStrategyInvoked

C5_Witness ==
  /\ AIOnlyMode
  /\ forceAI = Bool(TRUE)
  /\ ~cfg.aiEnabled
  /\ pc = "done"
  /\ outcome.kind = "throw"

\* C6: whenever the global always-use-AI setting is on or the caller
\* requested AI-only, a page that was fetched and passed the heuristic is
\* handled without invoking the JSON-LD or the microdata extractor.
C6_AIOnlyOverride ==
  (isRecipe /\ (cfg.alwaysUseAI \/ forceAI = Bool(TRUE)))
    => /\ ~Called("tryExtractRecipeFromJsonLd")
       /\ ~Called("tryExtractRecipeFromMicrodata")
       /\ (pc = "done" => (outcome.kind = "throw" \/ outcome.usedAI))

\* C7 (Scenario F): for a video-platform url with video parsing disabled the
\* request ends in a failure, and the fetch, the video processor, both
\* structured extractors and the AI engine are never invoked.
C7_ScenarioF ==
  (isVideoUrl(url) /\ ~cfg.videoParsingEnabled /\ Called("isVideoParsingEnabled"))
    => /\ pc = "done"
       /\ outcome = Thrown(Err("Video recipe parsing is not enabled."))
       /\ ~Called("fetchViaPlaywright")
       /\ ~Called("processVideoRecipe")
       /\ NoStrategyInvoked

C7_Witness ==
  /\ isVideoUrl(url)
  /\ ~cfg.videoParsingEnabled
  /\ pc = "done"
  /\ outcome.kind = "throw"

\* the indicator occurs in the page, letter case disregarded
OccursIn(ind, page) ==
  \E off \in 0..(Len(page) - Len(ind)) :
    \A k \in 1..Len(ind) : LowerChar(page[off + k]) = LowerChar(ind[k])

\* one schema indicator or two content indicators occur in the page
LikelyRecipe(page, indicators) ==
  \/ \E k \in DOMAIN indicators.schemaIndicators :
       OccursIn(indicators.schemaIndicators[k], page)
  \/ Cardinality({k \in DOMAIN indicators.contentIndicators :
                    OccursIn(indicators.contentIndicators[k], page)}) >= 2

\* C8: isPageLikelyRecipe answers true exactly when one configured schema
\* indicator or at least two configured content indicators occur in the page
\* as case-insensitive substrings; when it answers false the request fails
\* with "Page does not appear to contain a recipe." and no structured
\* extractor and no AI engine is invoked, whatever the mode.
C8_RecipeLikelihoodGate ==
  Called("isPageLikelyRecipe")
    => /\ isRecipe = LikelyRecipe(html.v, cfg.indicators)
       /\ ~isRecipe
            => /\ pc = "done"
               /\ outcome = Thrown(Err("Page does not appear to contain a recipe."))
               /\ NoStrategyInvoked

\* a page with a single content indicator is rejected though AI-only mode
\* was requested
C8_Witness ==
  /\ Called("isPageLikelyRecipe")
  /\ ~isRecipe
  /\ forceAI = Bool(TRUE)
  /\ \E k \in DOMAIN cfg.indicators.contentIndicators :
       OccursIn(cfg.indicators.contentIndicators[k], html.v)
  /\ pc = "done"

\* C9: when the fetch delivers null or the empty string the request fails
\* with "Cannot fetch recipe page."; the heuristic, the structured
\* extractors and the AI engine are not invoked and the fetch is attempted
\* once.
C9_CannotFetch ==
  (Called("fetchViaPlaywright") /\ (html = Null \/ html = Str(<< >>)))
    => /\ pc = "done"
       /\ outcome = Thrown(Err("Cannot fetch recipe page."))
       /\ CountCalls("fetchViaPlaywright") = 1
       /\ ~Called("isPageLikelyRecipe")
       /\ NoStrategyInvoked

C9_Witness ==
  /\ Called("fetchViaPlaywright")
  /\ html = Str(<< >>)
  /\ pc = "done"
  /\ outcome.kind = "throw"

\* C10: in the standard flow, when both structured extractors are unusable
\* and AI is enabled, the AI engine is invoked; the request returns the
\* engine's recipe with usedAI=true exactly when the engine's result is a
\* success, and fails with "Cannot parse recipe." exactly when the engine's
\* result is a failure.
C10_FallbackToAI ==
  /\ (BothUnusable /\ cfg.aiEnabled /\ pc = "done")
       => Called("extractRecipeWithAI")
  /\ (StandardFlow /\ Called("extractRecipeWithAI"))
       => /\ pc = "done"
          /\ BothUnusable /\ aiEnabled
          /\ CountCalls("extractRecipeWithAI") = 1
          /\ aiResult.success
               => outcome = Returned(aiResult.data, TRUE)
          /\ ~aiResult.success
               => outcome = Thrown(Err("Cannot parse recipe."))

C10_Witness ==
  /\ StandardFlow
  /\ Called("extractRecipeWithAI")
  /\ aiResult.success
  /\ outcome.kind = "return"
  /\ outcome.usedAI

\* ------------------------------------------------------------------------
\* Direct calls of the engine's entry points (import from pasted text or a
\* transcript, import from images)
\* ------------------------------------------------------------------------
orchestratorVars ==
  <<url, forceAI, allergies, cfg, pc, html, isRecipe, useAIOnly, aiEnabled,
    jsonLdParsed, containsStepsAndIngredients, microParsed,
    containsMicroStepsAndIngredients, aiResult, aiArgs, calls, outcome>>

\* no request of parseRecipeFromUrl is going on
NoRequest ==
  /\ url = ""
  /\ forceAI = Undefined
  /\ allergies = Undefined
  /\ cfg = [aiEnabled |-> FALSE, alwaysUseAI |-> FALSE, videoParsingEnabled |-> FALSE,
            indicators |-> CHOOSE i \in IndicatorConfigs : TRUE]
  /\ pc = "none"
  /\ html = Undefined
  /\ isRecipe = FALSE
  /\ useAIOnly = FALSE
  /\ aiEnabled = FALSE
  /\ jsonLdParsed = Undefined
  /\ containsStepsAndIngredients = FALSE
  /\ microParsed = Undefined
  /\ containsMicroStepsAndIngredients = FALSE
  /\ aiResult = Undefined
  /\ aiArgs = Undefined
  /\ calls = << >>
  /\ outcome = Pending

\* what the collaborators can do in a direct call
DirectEnvs ==
  EnvsFor(ModelOutputsOver(PayloadListsUpTo(MaxDirectItems)),
          ValidOutputsOver(PayloadListsUpTo(MaxDirectItems)),
          NormalizerOutputsOver(NormalizerListsUpTo(MaxDirectItems)))

NoEnv == [throwAt |-> "none", exc |-> "none", output |-> Null, normalized |-> Null]

\* a call about to be made: the function, its arguments, what isAIEnabled()
\* will answer; and, once made, what the collaborators did, the result and
\* the collaborators invoked
DirectCall(fn, args, enabled) ==
  [fn |-> fn, args |-> args, aiEnabled |-> enabled, done |-> FALSE,
   env |-> NoEnv, result |-> Undefined, calls |-> << >>]

TextCalls ==
  {DirectCall("extractRecipeWithAI", [html |-> Str(<<"s">>), url |-> u, allergies |-> a], e) :
     u \in {Undefined, Str("https://example.com/soup")},
     a \in {Undefined, Arr(<<"nuts">>)},
     e \in BOOLEAN}

ImageCalls ==
  {DirectCall("extractRecipeFromImages", [files |-> f, allergies |-> a], e) :
     f \in FileLists, a \in {Undefined, Arr(<<"nuts">>)}, e \in BOOLEAN}

InitEngine ==
  /\ NoRequest
  /\ direct \in TextCalls \cup ImageCalls

\* the call returns
Completed(env, r) ==
  direct' = [direct EXCEPT !.done = TRUE, !.env = env,
                           !.result = r.result, !.calls = r.calls]

TextEntry ==
  /\ direct.fn = "extractRecipeWithAI"
  /\ ~direct.done
  /\ \E env \in DirectEnvs :
       Completed(env, extractRecipeWithAI(direct.args.html, direct.args.url,
                                          direct.args.allergies, direct.aiEnabled, env))
  /\ UNCHANGED orchestratorVars

ImageEntry ==
  /\ direct.fn = "extractRecipeFromImages"
  /\ ~direct.done
  /\ \E env \in DirectEnvs :
       Completed(env, extractRecipeFromImages(direct.args.files, direct.args.allergies,
                                              direct.aiEnabled, env))
  /\ UNCHANGED orchestratorVars

NextEngine ==
  \/ TextEntry
  \/ ImageEntry

SpecEngine == InitEngine /\ [][NextEngine]_vars

\* ------------------------------------------------------------------------
\* Properties of the engine
\* ------------------------------------------------------------------------
EngineReturned == direct.fn \in {"extractRecipeWithAI", "extractRecipeFromImages"} /\ direct.done

DirectCalled(name) == \E i \in DOMAIN direct.calls : direct.calls[i] = name

\* the result is a failure of the given kind
FailedWith(r, code) ==
  /\ DOMAIN r = {"success", "error", "code"}
  /\ ~r.success
  /\ r.code = code

\* C11: when isAIEnabled() answers false, extractRecipeWithAI and
\* extractRecipeFromImages both return a failed result of kind AI_DISABLED,
\* and no provider handle is resolved, no prompt is built and no model call
\* is made.
C11_AIDisabledGuard ==
  (EngineReturned /\ ~direct.aiEnabled) =>
    /\ FailedWith(direct.result, "AI_DISABLED")
    /\ ~DirectCalled("getModels")
    /\ ~DirectCalled("getGenerationSettings")
    /\ ~DirectCalled("loadPrompt")
    /\ ~DirectCalled("generateText")

\* an image import with images was refused because AI is disabled
C11_Witness ==
  /\ EngineReturned
  /\ direct.fn = "extractRecipeFromImages"
  /\ Len(direct.args.files) > 0
  /\ ~direct.aiEnabled
  /\ FailedWith(direct.result, "AI_DISABLED")
  /\ direct.calls = <<"isAIEnabled">>

\* the model call returned an output (nothing raised up to and including it)
ModelAnswered ==
  /\ DirectCalled("generateText")
  /\ direct.env.throwAt \notin
       {"getModels", "getGenerationSettings", "loadPrompt", "generateText"}

\* the output is an object with at least one key
NonEmptyOutput(o) == o.t = "object" /\ o.v.keys > 0

\* a list of the payload is missing or empty
MissingOrEmptyList(o, field, sys) ==
  \/ o.v[field] = Undefined
  \/ o.v[field].v[sys] = Undefined
  \/ o.v[field].v[sys] = Arr(<< >>)

\* the payload's name is missing or empty, or one of its four lists is
\* missing or empty
IncompletePayload(o) ==
  \/ o.v.name = Undefined
  \/ o.v.name = Str("")
  \/ \E field \in {"recipeIngredient", "recipeInstructions"}, sys \in {"metric", "us"} :
       MissingOrEmptyList(o, field, sys)

\* C12: for a non-empty payload whose name is missing or empty, or any of
\* whose four lists (metric ingredients, US ingredients, metric
\* instructions, US instructions) is missing or empty, either entry point
\* returns a failed result of kind VALIDATION_ERROR, never a success, and
\* neither the normalizer nor the ingredient parser is invoked.
C12_ValidationGate ==
  (/\ EngineReturned
   /\ ModelAnswered
   /\ NonEmptyOutput(direct.env.output)
   /\ IncompletePayload(direct.env.output)) =>
    /\ FailedWith(direct.result, "VALIDATION_ERROR")
    /\ ~DirectCalled("normalizeRecipeFromJson")
    /\ ~DirectCalled("parseIngredientWithDefaults")

\* a payload with a name and three good lists but no US instructions was
\* refused by the text entry point
C12_Witness ==
  /\ EngineReturned
  /\ direct.fn = "extractRecipeWithAI"
  /\ ModelAnswered
  /\ NonEmptyOutput(direct.env.output)
  /\ direct.env.output.v.name = Str("Soup")
  /\ ~MissingOrEmptyList(direct.env.output, "recipeIngredient", "metric")
  /\ ~MissingOrEmptyList(direct.env.output, "recipeIngredient", "us")
  /\ ~MissingOrEmptyList(direct.env.output, "recipeInstructions", "metric")
  /\ direct.env.output.v.recipeInstructions.v.us = Arr(<< >>)
  /\ FailedWith(direct.result, "VALIDATION_ERROR")
  /\ direct.calls[Len(direct.calls)] = "generateText"

\* the kinds of failure an AIResult can carry
AIErrorCodes ==
  {"AI_DISABLED", "INVALID_INPUT", "EMPTY_RESPONSE", "VALIDATION_ERROR",
   "TIMEOUT", "UNKNOWN"}

\* a complete recipe: the url field and both unified lists
FullRecipe(data) ==
  /\ data.t = "object"
  /\ DOMAIN data.v = {"url", "recipeIngredients", "steps"}
  /\ IsArray(data.v.recipeIngredients)
  /\ IsArray(data.v.steps)

\* a success with a complete recipe, or a failure with a kind and a message
IsAIResult(r) ==
  \/ /\ DOMAIN r = {"success", "data"}
     /\ r.success
     /\ FullRecipe(r.data)
  \/ /\ DOMAIN r = {"success", "error", "code"}
     /\ ~r.success
     /\ r.code \in AIErrorCodes

\* the collaborator that raised in this call
RaisedAt(name) == direct.env.throwAt = name /\ DirectCalled(name)

\* C13: whichever of getModels, getGenerationSettings, the prompt builder,
\* generateText, normalizeRecipeFromJson, getUnits or
\* parseIngredientWithDefaults raises, both entry points return a failed
\* AIResult instead of throwing; every call yields one result that is either
\* a success with a complete recipe or a failure, never a partial recipe.
C13_NeverPropagates ==
  EngineReturned =>
    /\ IsAIResult(direct.result)
    /\ \A name \in {"getModels", "getGenerationSettings", "loadPrompt", "generateText",
                    "normalizeRecipeFromJson", "getUnits",
                    "parseIngredientWithDefaults"} :
         RaisedAt(name) => ~direct.result.success

\* the ingredient parser raised a timeout in an image import and the call
\* returned a failure
C13_Witness ==
  /\ EngineReturned
  /\ direct.fn = "extractRecipeFromImages"
  /\ RaisedAt("parseIngredientWithDefaults")
  /\ direct.env.exc = "TimeoutError"
  /\ FailedWith(direct.result, "TIMEOUT")

EngineSucceeded ==
  /\ EngineReturned
  /\ DOMAIN direct.result = {"success", "data"}
  /\ direct.result.success

\* the entries the normalizer delivered for a list of the metric version
NormalizerEntries(field) ==
  IF direct.env.normalized.v[field] = Undefined
  THEN << >>
  ELSE direct.env.normalized.v[field].v

\* the US strings of the model payload
UsStrings(field) == direct.env.output.v[field].v.us.v

\* the unified list is the metric entries followed by one US-tagged entry
\* per US string, in the order of the strings
MetricThenUs(unified, metric, usStrings) ==
  /\ Len(unified) = Len(metric) + Len(usStrings)
  /\ SubSeq(unified, 1, Len(metric)) = metric
  /\ \A i \in 1..Len(usStrings) :
       /\ unified[Len(metric) + i].systemUsed = "us"
       /\ unified[Len(metric) + i].text = usStrings[i]
  /\ \A i, j \in 1..Len(unified) :
       (unified[i].systemUsed = "metric" /\ unified[j].systemUsed = "us") => i < j

\* C14: in every success result the unified ingredient list is the
\* normalizer's metric entries followed by one US-tagged entry per US
\* ingredient string, and the unified step list is the normalizer's metric
\* steps followed by one US-tagged step per US instruction string: metric
\* before US, input order within each system, length = metric count + US
\* count.
C14_MetricThenUs ==
  EngineSucceeded =>
    /\ MetricThenUs(direct.result.data.v.recipeIngredients.v,
                    NormalizerEntries("recipeIngredients"),
                    UsStrings("recipeIngredient"))
    /\ MetricThenUs(direct.result.data.v.steps.v,
                    NormalizerEntries("steps"),
                    UsStrings("recipeInstructions"))

\* a success whose lists hold two metric and two US entries each
C14_Witness ==
  /\ EngineSucceeded
  /\ Len(NormalizerEntries("recipeIngredients")) = 2
  /\ Len(UsStrings("recipeIngredient")) = 2
  /\ Len(NormalizerEntries("steps")) = 2
  /\ Len(UsStrings("recipeInstructions")) = 2
  /\ Len(direct.result.data.v.recipeIngredients.v) = 4
  /\ Len(direct.result.data.v.steps.v) = 4
  /\ direct.result.data.v.steps.v[4].text = 2

\* the entries of one measurement system, in list order
OfSystem(list, sys) == SelectSeq(list, LAMBDA e : e.systemUsed = sys)

\* the entries carry the order indexes first, first + 1, .. in list order
NumberedFrom(entries, first) ==
  \A i \in 1..Len(entries) : entries[i].order = first + (i - 1)

\* C15: in every success result the entries of each measurement
\* system carry a contiguous zero-based order index within their own system
\* (0 .. n-1), in the unified ingredient list and in the unified step list,
\* the US-tagged ingredients and US-tagged steps built by the engine
\* included.
C15_ZeroBasedOrders ==
  EngineSucceeded =>
    \A sys \in {"metric", "us"} :
      /\ NumberedFrom(OfSystem(direct.result.data.v.recipeIngredients.v, sys), 0)
      /\ NumberedFrom(OfSystem(direct.result.data.v.steps.v, sys), 0)

\* C16: when the model call returns a null or absent output, or an object
\* with no keys, either entry point returns a failed result of kind
\* EMPTY_RESPONSE; the check comes before the required-field validation, so
\* such an output is never reported as VALIDATION_ERROR and never reaches
\* the normalizer.
C16_EmptyResponse ==
  (/\ EngineReturned
   /\ ModelAnswered
   /\ direct.env.output \in {Null, Undefined, Obj([keys |-> 0])}) =>
    /\ FailedWith(direct.result, "EMPTY_RESPONSE")
    /\ ~DirectCalled("normalizeRecipeFromJson")

\* the model answered an image import with an object that has no keys
C16_Witness ==
  /\ EngineReturned
  /\ direct.fn = "extractRecipeFromImages"
  /\ ModelAnswered
  /\ direct.env.output = Obj([keys |-> 0])
  /\ FailedWith(direct.result, "EMPTY_RESPONSE")
  /\ direct.calls[Len(direct.calls)] = "generateText"

\* C17: extractRecipeFromImages called with an empty image list while AI is
\* enabled returns a failed result of kind INVALID_INPUT, and no provider
\* handle is resolved and no model call is made.
C17_InvalidInput ==
  (/\ EngineReturned
   /\ direct.fn = "extractRecipeFromImages"
   /\ direct.aiEnabled
   /\ Len(direct.args.files) = 0) =>
    /\ FailedWith(direct.result, "INVALID_INPUT")
    /\ ~DirectCalled("getModels")
    /\ ~DirectCalled("generateText")

\* an image import without images was refused although AI is enabled and
\* the model would have answered with a complete payload
C17_Witness ==
  /\ EngineReturned
  /\ direct.fn = "extractRecipeFromImages"
  /\ direct.aiEnabled
  /\ direct.args.files = << >>
  /\ direct.env.throwAt = "none"
  /\ direct.env.normalized # Null
  /\ FailedWith(direct.result, "INVALID_INPUT")
  /\ direct.calls = <<"isAIEnabled">>

\* ------------------------------------------------------------------------
\* Provider registry: createModelsFromConfig
\* ------------------------------------------------------------------------
\* a function that raised, and a function that returned
Threw(message) == [thrown |-> TRUE, error |-> message]
Gave(value) == [thrown |-> FALSE, value |-> value]

\* the test with the empty string let through
missing_UndefinedOnly(x) == x = Undefined

\* !apiKey, !endpoint
missing(x) == ~Truthy(x)

\* a || b
OrElse(a, b) == IF Truthy(a) THEN a ELSE b

\* s.endsWith(suffix)
endsWith(s, suffix) ==
  /\ Len(s) >= Len(suffix)
  /\ SubSeq(s, Len(s) - Len(suffix) + 1, Len(s)) = suffix

\* s.replace(/\/+$/, "")
RECURSIVE stripTrailingSlashes(_)
stripTrailingSlashes(s) ==
  IF Len(s) > 0 /\ s[Len(s)] = "/"
  THEN stripTrailingSlashes(SubSeq(s, 1, Len(s) - 1))
  ELSE s

v1 == <<"/", "v", "1">>

\* the normalization with the trailing slashes left in place
normalizeEndpoint_NoStrip(endpoint) ==
  IF ~endsWith(endpoint, v1) THEN endpoint \o v1 ELSE endpoint

\* normalizedEndpoint of the lm-studio / generic-openai case
normalizeEndpoint(endpoint) ==
  LET normalizedEndpoint == stripTrailingSlashes(endpoint)
  IN  IF ~endsWith(normalizedEndpoint, v1)
      THEN normalizedEndpoint \o v1
      ELSE normalizedEndpoint

\* a model handle: the provider factory it came from, the settings the
\* factory was created with, and the model id
Handle(factory, settings, modelId) ==
  [factory |-> factory, settings |-> settings, modelId |-> modelId]

\* the ModelConfig of one factory
ModelsOf(factory, settings, config, providerName) ==
  Gave([model |-> Handle(factory, settings, config.model),
        visionModel |-> Handle(factory, settings, OrElse(config.visionModel, config.model)),
        providerName |-> providerName])

createModelsFromConfig(config) ==
  CASE config.provider = "openai" ->
         IF missing(config.apiKey)
         THEN Threw("API Key is required for OpenAI provider")
         ELSE ModelsOf("createOpenAI", [apiKey |-> config.apiKey], config, "OpenAI")
    [] config.provider = "ollama" ->
         IF missing(config.endpoint)
         THEN Threw("Endpoint is required for Ollama provider")
         ELSE ModelsOf("createOllama", [baseURL |-> config.endpoint], config, "Ollama")
    [] config.provider \in {"lm-studio", "generic-openai"} ->
         IF missing(config.endpoint)
         THEN Threw("Endpoint is required for this provider")
         ELSE ModelsOf("createOpenAICompatible",
                       [name |-> IF config.provider = "lm-studio"
                                 THEN "lmstudio" ELSE "generic-openai",
                        baseURL |-> Str(normalizeEndpoint(config.endpoint.v)),
                        headers |-> IF Truthy(config.apiKey)
                                    THEN Obj([Authorization |-> <<"Bearer", config.apiKey.v>>])
                                    ELSE Undefined],
                       config,
                       IF config.provider = "lm-studio"
                       THEN "LM Studio" ELSE "Generic OpenAI")
    [] config.provider = "perplexity" ->
         IF missing(config.apiKey)
         THEN Threw("API Key is required for Perplexity provider")
         ELSE ModelsOf("createPerplexity", [apiKey |-> config.apiKey], config, "Perplexity")
    [] OTHER -> Threw("Unknown AI provider")

\* the providers of AIConfig["provider"]
KnownProviders == {"openai", "ollama", "lm-studio", "generic-openai", "perplexity"}

EndpointAlphabet == {"h", "/", "v", "1"}

\* the endpoints an administrator can configure
Endpoints ==
  {Undefined} \cup {Str(e) : e \in SeqsUpTo(EndpointAlphabet, MaxEndpointLen)}

\* the provider configurations createModelsFromConfig can be given
ProviderConfigs ==
  [provider : KnownProviders \cup {"other"},
   model : {Str("m")},
   visionModel : {Undefined, Str("vm")},
   endpoint : Endpoints,
   apiKey : {Undefined, Str(""), Str("sk-1")}]

\* ------------------------------------------------------------------------
\* Provider registry: getModelCapabilities
\* ------------------------------------------------------------------------
defaults ==
  [supportsTemperature |-> TRUE, supportsMaxTokens |-> TRUE, supportsVision |-> FALSE,
   supportsStructuredOutput |-> TRUE, maxTemperature |-> 2]

\* the bodies an answer of POST /api/show can carry once parsed as JSON
ShowBodies ==
  {Null,
   Obj(<< >>),
   Obj([details |-> Obj(<< >>)]),
   Obj([details |-> Obj([families |-> Arr(<<"llama">>)])]),
   Obj([details |-> Obj([families |-> Arr(<<"llama", "clip">>)])]),
   Obj([details |-> Obj([families |-> [t |-> "number", v |-> 1]])])}

\* the outcomes of the introspection call: the request times out, the
\* network fails, the status is not a success, the body is not JSON, or the
\* body parses
IntrospectionOutcomes ==
  {[kind |-> k, data |-> Null] : k \in {"timeout", "network", "status", "badjson"}}
  \cup {[kind |-> "json", data |-> d] : d \in ShowBodies}

\* what the Ollama query returns on a failure, with max tokens left on
ollamaFailure_Defaults(d) == d

\* { ...defaults, supportsMaxTokens: false }
ollamaFailure(d) == [d EXCEPT !.supportsMaxTokens = FALSE]

\* queryOllamaCapabilities under one answer of the introspection call
queryOllamaCapabilities(endpoint, model, d, answer) ==
  LET baseUrl == stripTrailingSlashes(endpoint.v)
      request == [url |-> baseUrl \o <<"/api/show">>, name |-> model]
      data == answer.data
      modelInfo == OrElse(Prop(data, "details"), Obj(<< >>))
      families == OrElse(Prop(modelInfo, "families"), Arr(<< >>))
      hasVision ==
        \/ \E i \in DOMAIN families.v : families.v[i] = "clip"
        \/ includes(toLowerCase(model.v), <<"l", "l", "a", "v", "a">>)
        \/ includes(toLowerCase(model.v), <<"v", "i", "s", "i", "o", "n">>)
  IN  IF answer.kind \in {"timeout", "network"}
      THEN [caps |-> ollamaFailure(d), requests |-> <<request>>]
      ELSE IF answer.kind = "status"
      THEN [caps |-> ollamaFailure(d), requests |-> <<request>>]
      ELSE IF answer.kind = "badjson"
      THEN [caps |-> ollamaFailure(d), requests |-> <<request>>]
      ELSE IF data.t \in {"null", "undefined"}
      THEN [caps |-> ollamaFailure(d), requests |-> <<request>>]
      ELSE IF families.t \notin {"array", "string"}
      THEN [caps |-> ollamaFailure(d), requests |-> <<request>>]
      ELSE [caps |-> [supportsTemperature |-> TRUE, supportsMaxTokens |-> FALSE,
                      supportsVision |-> hasVision,
                      supportsStructuredOutput |-> TRUE, maxTemperature |-> 2],
            requests |-> <<request>>]

getModelCapabilities(provider, endpoint, model, answer) ==
  CASE provider = "openai" ->
         [caps |-> [defaults EXCEPT !.supportsVision = TRUE,
                                    !.supportsStructuredOutput = TRUE],
          requests |-> << >>]
    [] provider = "ollama" ->
         IF Truthy(endpoint) /\ Truthy(model)
         THEN queryOllamaCapabilities(endpoint, model, defaults, answer)
         ELSE [caps |-> [defaults EXCEPT !.supportsMaxTokens = FALSE,
                                         !.supportsVision = FALSE],
               requests |-> << >>]
    [] provider = "lm-studio" ->
         [caps |-> [defaults EXCEPT !.supportsVision = FALSE,
                                    !.supportsStructuredOutput = TRUE],
          requests |-> << >>]
    [] provider = "generic-openai" ->
         [caps |-> [defaults EXCEPT !.supportsVision = FALSE,
                                    !.supportsStructuredOutput = FALSE],
          requests |-> << >>]
    [] OTHER -> [caps |-> defaults, requests |-> << >>]

\* the model names a caller can ask about
ModelNames ==
  {Undefined, Str(<< >>), Str(<<"m">>), Str(<<"L", "L", "a", "V", "a">>),
   Str(<<"V", "i", "s", "i", "o", "n">>)}

\* ------------------------------------------------------------------------
\* Direct calls of the provider registry
\* ------------------------------------------------------------------------
RegistryCall(fn, args) ==
  [fn |-> fn, args |-> args, done |-> FALSE, answer |-> Undefined, result |-> Undefined]

CreateCalls == {RegistryCall("createModelsFromConfig", c) : c \in ProviderConfigs}

CapabilityCalls ==
  {RegistryCall("getModelCapabilities", [provider |-> p, endpoint |-> e, model |-> m]) :
     p \in KnownProviders \cup {"other"},
     e \in {Undefined, Str(<< >>), Str(<<"h">>), Str(<<"h", "/", "/">>)},
     m \in ModelNames}

InitRegistry ==
  /\ NoRequest
  /\ direct \in CreateCalls \cup CapabilityCalls

CreateModels ==
  /\ direct.fn = "createModelsFromConfig"
  /\ ~direct.done
  /\ direct' = [direct EXCEPT !.done = TRUE,
                              !.result = createModelsFromConfig(direct.args)]
  /\ UNCHANGED orchestratorVars

GetCapabilities ==
  /\ direct.fn = "getModelCapabilities"
  /\ ~direct.done
  /\ \E answer \in IntrospectionOutcomes :
       direct' = [direct EXCEPT
                    !.done = TRUE,
                    !.answer = answer,
                    !.result = getModelCapabilities(direct.args.provider,
                                                    direct.args.endpoint,
                                                    direct.args.model, answer)]
  /\ UNCHANGED orchestratorVars

NextRegistry ==
  \/ CreateModels
  \/ GetCapabilities

SpecRegistry == InitRegistry /\ [][NextRegistry]_vars

\* ------------------------------------------------------------------------
\* Properties of the provider registry
\* ------------------------------------------------------------------------
RegistryReturned(fn) == direct.fn = fn /\ direct.done

\* absent or the empty string
Lacking(x) == x = Undefined \/ Len(x.v) = 0

\* the selected provider lacks the secret or the endpoint it needs
LacksRequired(config) ==
  \/ config.provider \in {"openai", "perplexity"} /\ Lacking(config.apiKey)
  \/ config.provider \in {"ollama", "lm-studio", "generic-openai"} /\ Lacking(config.endpoint)

ConfigurationErrors ==
  {"API Key is required for OpenAI provider",
   "Endpoint is required for Ollama provider",
   "Endpoint is required for this provider",
   "API Key is required for Perplexity provider"}

IsHandle(h) ==
  /\ DOMAIN h = {"factory", "settings", "modelId"}
  /\ h.modelId.t = "string"

\* C18: for a known provider createModelsFromConfig fails with a
\* configuration error, without constructing any model handle, exactly when
\* the provider lacks what it requires (the API key for openai and
\* perplexity, the endpoint for ollama, lm-studio and generic-openai); for
\* every other configuration it returns model, visionModel and providerName.
C18_RequiredSecretOrEndpoint ==
  (RegistryReturned("createModelsFromConfig") /\ direct.args.provider \in KnownProviders) =>
    IF LacksRequired(direct.args)
    THEN /\ direct.result.thrown
         /\ direct.result.error \in ConfigurationErrors
         /\ "value" \notin DOMAIN direct.result
    ELSE /\ ~direct.result.thrown
         /\ DOMAIN direct.result.value = {"model", "visionModel", "providerName"}
         /\ IsHandle(direct.result.value.model)
         /\ IsHandle(direct.result.value.visionModel)
         /\ direct.result.value.providerName \in
              {"OpenAI", "Ollama", "LM Studio", "Generic OpenAI", "Perplexity"}

\* generic-openai was configured with an API key but with an empty endpoint,
\* and the registry refused
C18_Witness ==
  /\ RegistryReturned("createModelsFromConfig")
  /\ direct.args.provider = "generic-openai"
  /\ direct.args.apiKey = Str("sk-1")
  /\ direct.args.endpoint = Str(<< >>)
  /\ direct.result.thrown
  /\ direct.result.error = "Endpoint is required for this provider"

IsCapabilities(c) ==
  /\ DOMAIN c = {"supportsTemperature", "supportsMaxTokens", "supportsVision",
                 "supportsStructuredOutput", "maxTemperature"}
  /\ c.supportsTemperature \in BOOLEAN
  /\ c.supportsMaxTokens \in BOOLEAN
  /\ c.supportsVision \in BOOLEAN
  /\ c.supportsStructuredOutput \in BOOLEAN
  /\ c.maxTemperature \in Nat

\* the request did not come back, came back with a failure status, or its
\* body could not be read as the description of a model
FailedIntrospection(answer) ==
  \/ answer.kind \in {"timeout", "network", "status", "badjson"}
  \/ answer.kind = "json" /\ answer.data = Null
  \/ answer.kind = "json" /\ answer.data = Obj([details |-> Obj([families |-> [t |-> "number", v |-> 1]])])

\* C19: getModelCapabilities returns a ModelCapabilities for every provider
\* and every outcome of the introspection call; for ollama with an endpoint
\* and a model given, every failed introspection yields the static defaults
\* with supportsMaxTokens = false.
C19_ProberNeverRaises ==
  RegistryReturned("getModelCapabilities") =>
    /\ DOMAIN direct.result = {"caps", "requests"}
    /\ IsCapabilities(direct.result.caps)
    /\ (/\ direct.args.provider = "ollama"
        /\ ~Lacking(direct.args.endpoint)
        /\ ~Lacking(direct.args.model)
        /\ FailedIntrospection(direct.answer)) =>
         direct.result.caps =
           [supportsTemperature |-> TRUE, supportsMaxTokens |-> FALSE,
            supportsVision |-> FALSE, supportsStructuredOutput |-> TRUE,
            maxTemperature |-> 2]

\* the introspection of an Ollama vision model timed out
C19_Witness ==
  /\ RegistryReturned("getModelCapabilities")
  /\ direct.args.provider = "ollama"
  /\ direct.args.endpoint = Str(<<"h", "/", "/">>)
  /\ direct.args.model = Str(<<"L", "L", "a", "V", "a">>)
  /\ direct.answer.kind = "timeout"
  /\ direct.result.requests = << [url |-> <<"h", "/api/show">>,
                                  name |-> Str(<<"L", "L", "a", "V", "a">>)] >>
  /\ ~direct.result.caps.supportsMaxTokens
  /\ ~direct.result.caps.supportsVision

\* the endpoint without the slashes at its end
WithoutTrailingSlashes(e) ==
  CHOOSE p \in {SubSeq(e, 1, k) : k \in 0..Len(e)} :
    /\ Len(p) = 0 \/ p[Len(p)] # "/"
    /\ \A i \in (Len(p) + 1)..Len(e) : e[i] = "/"

\* the base URL the lm-studio / generic-openai handles were created with
BaseURL == direct.result.value.model.settings.baseURL.v

\* C20: for lm-studio and generic-openai the endpoint normalization is
\* idempotent (normalizing the normalized endpoint changes nothing), and the
\* normalized endpoint has no trailing slash and ends in "/v1", which is
\* appended only when it is absent once the trailing slashes are stripped.
C20_EndpointNormalization ==
  (/\ RegistryReturned("createModelsFromConfig")
   /\ direct.args.provider \in {"lm-studio", "generic-openai"}
   /\ ~direct.result.thrown) =>
    LET stripped == WithoutTrailingSlashes(direct.args.endpoint.v)
    IN  /\ normalizeEndpoint(BaseURL) = BaseURL
        /\ BaseURL[Len(BaseURL)] # "/"
        /\ endsWith(BaseURL, <<"/", "v", "1">>)
        /\ BaseURL = IF endsWith(stripped, <<"/", "v", "1">>)
                     THEN stripped
                     ELSE stripped \o <<"/", "v", "1">>
        /\ createModelsFromConfig([direct.args EXCEPT !.endpoint = Str(BaseURL)])
             = direct.result

\* an endpoint that already ends in "/v1" followed by a slash lost the
\* slash and got nothing appended
C20_Witness ==
  /\ RegistryReturned("createModelsFromConfig")
  /\ direct.args.provider = "lm-studio"
  /\ direct.args.endpoint = Str(<<"/", "v", "1", "/">>)
  /\ ~direct.result.thrown
  /\ BaseURL = <<"/", "v", "1">>

\* ------------------------------------------------------------------------
\* A request during which the administrator changes the configuration
\* ------------------------------------------------------------------------
\* The configuration collaborator is asked anew at every call site
\* (shouldAlwaysUseAI, isAIEnabled, getContentIndicators,
\* isVideoParsingEnabled), so a change made while the request is in flight
\* is seen by the reads that follow it.
AdminChange ==
  /\ pc \notin {"none", "done"}
  /\ \E c \in Configs \ {cfg} : cfg' = c
  /\ UNCHANGED <<direct, url, forceAI, allergies, pc, html, isRecipe, useAIOnly, aiEnabled,
                 jsonLdParsed, microParsed, aiResult, aiArgs, calls, outcome, flags>>

NextAdmin ==
  \/ AdminChange
  \/ ClassifyUrl
  \/ VideoGate
  \/ ProcessVideo
  \/ Fetch
  \/ Heuristic
  \/ DecideMode
  \/ AIOnlyGate
  \/ AIOnlyExtract
  \/ JsonLd
  \/ Microdata
  \/ FallbackGate
  \/ FallbackExtract

SpecAdmin == Init /\ [][NextAdmin]_vars

\* the engine was entered by this request
EngineEntered == aiResult # Undefined

\* the decisions the request has taken so far are the ones it would have
\* taken had it read the configuration c at every call site
ConsistentWith(c) ==
  /\ Called("shouldAlwaysUseAI") => useAIOnly = c.alwaysUseAI
  /\ Called("extractRecipeWithAI") => c.aiEnabled
  /\ EngineEntered =>
       (c.aiEnabled <=> ~(~aiResult.success /\ aiResult.code = "AI_DISABLED"))

\* C21: within one request the configuration is a snapshot: every decision
\* of the request (the mode, the orchestrator's AI-enabled check, the
\* engine's AI_DISABLED guard) is consistent with one single configuration
\* state, also when the administrator changes the configuration while the
\* request is in flight.
C21_ConfigSnapshot == \E c \in Configs : ConsistentWith(c)

\* ------------------------------------------------------------------------
\* Prompt builders
\* ------------------------------------------------------------------------
\* buildAllergyInstruction(allergies, {strict}) of prompts/fragments
buildAllergyInstruction(list, strict) ==
  IF Truthy(list) /\ JsLength(list) > 0
  THEN [wording |-> IF strict THEN "STRICT" ELSE "ONLY",
        list |-> join(list.v, commaSpace)]
  ELSE [wording |-> "SKIP", list |-> << >>]

\* buildRecipeExtractionPrompt(content, options) of prompts/builder.ts
buildRecipeExtractionPrompt(content, options) ==
  [thrown |-> FALSE,
   prompt |-> [allergyInstruction |->
                 buildAllergyInstruction(
                   options.allergies,
                   NullishCoalesce(options.strictAllergyDetection, Bool(TRUE)).v),
               urlLine |-> IF Truthy(options.url) THEN <<options.url>> ELSE << >>,
               webpageText |-> content]]

\* the allergen names of a household
AllergenNames == {<<"n", "u", "t">>, <<"e", "g", "g">>, <<"s", "o", "y">>}

\* the allergy lists a caller can pass: absent, empty, or some names
AllergyInputs ==
  {Undefined} \cup {Arr(l) : l \in SeqsUpTo(AllergenNames, MaxAllergies)}

PromptCall(fn, args) == [fn |-> fn, args |-> args, done |-> FALSE, result |-> Undefined]

PromptCalls ==
  {PromptCall(fn, [content |-> Str(<<"s">>), url |-> u, allergies |-> a,
                   strictAllergyDetection |-> Undefined]) :
     fn \in {"buildExtractionPrompt", "buildImageExtractionPrompt",
             "buildRecipeExtractionPrompt"},
     u \in {Undefined, Str("https://example.com/soup")},
     a \in AllergyInputs}

InitPrompt ==
  /\ NoRequest
  /\ direct \in PromptCalls

TextPrompt ==
  /\ direct.fn = "buildExtractionPrompt"
  /\ ~direct.done
  /\ direct' = [direct EXCEPT
                  !.done = TRUE,
                  !.result = buildExtractionPrompt(direct.args.url, direct.args.content,
                                                   direct.args.allergies)]
  /\ UNCHANGED orchestratorVars

ImagePrompt ==
  /\ direct.fn = "buildImageExtractionPrompt"
  /\ ~direct.done
  /\ direct' = [direct EXCEPT
                  !.done = TRUE,
                  !.result = buildImageExtractionPrompt(direct.args.allergies)]
  /\ UNCHANGED orchestratorVars

BuilderPrompt ==
  /\ direct.fn = "buildRecipeExtractionPrompt"
  /\ ~direct.done
  /\ direct' = [direct EXCEPT
                  !.done = TRUE,
                  !.result = buildRecipeExtractionPrompt(direct.args.content, direct.args)]
  /\ UNCHANGED orchestratorVars

NextPrompt ==
  \/ TextPrompt
  \/ ImagePrompt
  \/ BuilderPrompt

SpecPrompt == InitPrompt /\ [][NextPrompt]_vars

PromptBuilt ==
  /\ direct.fn \in {"buildExtractionPrompt", "buildImageExtractionPrompt",
                    "buildRecipeExtractionPrompt"}
  /\ direct.done

\* the first position at which sep occurs in s, or 0
FirstOccurrence(s, sep) ==
  LET hits == {i \in 1..(Len(s) - Len(sep) + 1) : SubSeq(s, i, i + Len(sep) - 1) = sep}
  IN  IF hits = {} THEN 0 ELSE CHOOSE i \in hits : \A j \in hits : i <= j

\* the names a comma-separated list names
RECURSIVE NamesIn(_)
NamesIn(s) ==
  LET i == FirstOccurrence(s, <<",", " ">>)
  IN  IF i = 0
      THEN <<s>>
      ELSE <<SubSeq(s, 1, i - 1)>> \o NamesIn(SubSeq(s, i + 2, Len(s)))

\* the wording each builder uses for a non-empty list
WordingOf(fn) == IF fn = "buildImageExtractionPrompt" THEN "ONLY" ELSE "STRICT"

\* C22: for every non-empty allergy list the allergy fragment of the prompt
\* names exactly the supplied allergens, each one, in the given order and no
\* others; for an empty or absent list the fragment is the instruction to
\* skip allergy/dietary tag detection; for the text prompt (strict wording)
\* and for the image prompt (permissive wording).
C22_AllergyFragment ==
  PromptBuilt =>
    /\ ~direct.result.thrown
    /\ LET fragment == direct.result.prompt.allergyInstruction
           given == direct.args.allergies
       IN  IF given # Undefined /\ Len(given.v) > 0
           THEN /\ fragment.wording = WordingOf(direct.fn)
                /\ NamesIn(fragment.list) = given.v
           ELSE /\ fragment.wording = "SKIP"
                /\ fragment.list = << >>

\* the text prompt for the allergens egg and nut, in this order
C22_Witness ==
  /\ PromptBuilt
  /\ direct.fn = "buildExtractionPrompt"
  /\ direct.args.allergies = Arr(<< <<"e", "g", "g">>, <<"n", "u", "t">> >>)
  /\ direct.result.prompt.allergyInstruction =
       [wording |-> "STRICT",
        list |-> <<"e", "g", "g", ",", " ", "n", "u", "t">>]

\* ------------------------------------------------------------------------
\* Further properties of the orchestrator
\* ------------------------------------------------------------------------
\* the request is over
RequestOver == pc = "done"

\* C23: for a video-platform URL with video parsing enabled the outcome is
\* the video processor's alone: its recipe with usedAI = true, or the error
\* it threw; the web fetch, the heuristic, the structured extractors and the
\* text AI engine are not invoked.
C23_VideoPath ==
  (RequestOver /\ isVideoUrl(url) /\ cfg.videoParsingEnabled) =>
    /\ CountCalls("processVideoRecipe") = 1
    /\ \/ outcome = Returned(VideoRecipe, TRUE)
       \/ \E e \in Exceptions : outcome = Thrown(Err(e))
    /\ \A name \in {"fetchViaPlaywright", "isPageLikelyRecipe",
                    "tryExtractRecipeFromJsonLd", "tryExtractRecipeFromMicrodata",
                    "extractRecipeWithAI"} : ~Called(name)

\* the video processor timed out and the request failed with its error
C23_Witness ==
  /\ RequestOver
  /\ isVideoUrl(url)
  /\ cfg.videoParsingEnabled
  /\ calls = <<"isVideoUrl", "isVideoParsingEnabled", "processVideoRecipe">>
  /\ outcome = Thrown(Err("TimeoutError"))

\* C24: within one request the web fetch, the JSON-LD extractor, the
\* microdata extractor and the AI engine are each invoked at most once, and
\* within one engine call generateText is issued at most once, whatever
\* fails.
C24_NoRetry ==
  \A name \in {"fetchViaPlaywright", "tryExtractRecipeFromJsonLd",
               "tryExtractRecipeFromMicrodata", "extractRecipeWithAI",
               "generateText"} :
    CountCalls(name) <= 1

\* the model call of the fallback timed out: the request failed after one
\* fetch, one run of each extractor, one engine call and one model call
C24_Witness ==
  /\ RequestOver
  /\ calls[Len(calls)] = "generateText"
  /\ aiResult = aiError(getErrorMessage("TIMEOUT", "TimeoutError"), "TIMEOUT")
  /\ outcome = Thrown(Err("Cannot parse recipe."))
  /\ \A name \in {"fetchViaPlaywright", "tryExtractRecipeFromJsonLd",
                  "tryExtractRecipeFromMicrodata", "extractRecipeWithAI",
                  "generateText"} :
       CountCalls(name) = 1


\* ---------------------------------------------------------------------
\* Model listing (providers/registry.ts, listModels and its helpers)
\* ---------------------------------------------------------------------

\* at most this many models in one endpoint answer
MaxListed == 2

\* s.startsWith(prefix)
startsWith(s, prefix) ==
  /\ Len(s) >= Len(prefix)
  /\ SubSeq(s, 1, Len(prefix)) = prefix

\* the words of the filter of listOpenAIModels, in the order of the code
ExcludedWords ==
  <<  <<"e", "m", "b", "e", "d", "d", "i", "n", "g">>,
      <<"w", "h", "i", "s", "p", "e", "r">>,
      <<"t", "t", "s">>,
      <<"d", "a", "l", "l", "-", "e">>,
      <<"d", "a", "v", "i", "n", "c", "i">>,
      <<"b", "a", "b", "b", "a", "g", "e">>,
      <<"c", "u", "r", "i", "e">>,
      <<"a", "d", "a">>  >>

ftPrefix == <<"f", "t", ":">>

\* the predicate of models.filter(...): every test is made on the
\* lower-cased id
isChatModel(m) ==
  LET id == toLowerCase(m.id)
  IN  /\ \A i \in DOMAIN ExcludedWords : ~includes(id, ExcludedWords[i])
      /\ ~startsWith(id, ftPrefix)

\* the ids an endpoint can return: chat models, an excluded family in
\* lower and in mixed case, and a fine-tune
ModelIds ==
  {  <<"g", "p", "t", "-", "4">>,
     <<"o", "1">>,
     <<"a", "d", "a">>,
     <<"A", "d", "a">>,
     <<"t", "t", "s", "-", "1">>,
     <<"f", "t", ":", "o", "1">>  }

\* the collation order of the characters of ModelIds (punctuation, then
\* digits, then letters), upper and lower case sharing one place
CharOrder == <<"-", ":", "1", "4", "a", "d", "f", "g", "o", "p", "s", "t">>

primaryRank(c) == CHOOSE i \in DOMAIN CharOrder : CharOrder[i] = LowerChar(c)

\* a.localeCompare(b) < 0: by the letters first, lower case before upper
\* case among ids with the same letters
RECURSIVE before(_, _)
before(a, b) ==
  IF a = << >> THEN b # << >>
  ELSE IF b = << >> THEN FALSE
  ELSE IF primaryRank(Head(a)) # primaryRank(Head(b))
       THEN primaryRank(Head(a)) < primaryRank(Head(b))
  ELSE IF toLowerCase(Tail(a)) # toLowerCase(Tail(b))
       THEN before(Tail(a), Tail(b))
  ELSE IF Head(a) # Head(b) THEN Head(a) = LowerChar(Head(a))
  ELSE before(Tail(a), Tail(b))

\* an entry put at its place in a list sorted by id
RECURSIVE insertById(_, _)
insertById(m, sorted) ==
  IF sorted = << >> THEN <<m>>
  ELSE IF before(m.id, Head(sorted).id) THEN <<m>> \o sorted
  ELSE <<Head(sorted)>> \o insertById(m, Tail(sorted))

\* list.sort((a, b) => a.id.localeCompare(b.id))
RECURSIVE sortById(_)
sortById(list) ==
  IF list = << >> THEN << >> ELSE insertById(Head(list), sortById(Tail(list)))

vision == <<"v", "i", "s", "i", "o", "n">>
gpt4 == <<"g", "p", "t", "-", "4">>
gpt5 == <<"g", "p", "t", "-", "5">>
llava == <<"l", "l", "a", "v", "a">>
bakllava == <<"b", "a", "k", "l", "l", "a", "v", "a">>

AvailableModel(id, name, supportsVision) ==
  [id |-> id, name |-> name, supportsVision |-> supportsVision]

\* what a listing request can meet: a thrown fetch (network error,
\* timeout, unreadable body), a non-ok status, or a body with the fields
\* data and models, each a list or absent
ListingAnswers ==
  LET lists == SeqsUpTo(ModelIds, MaxListed)
  IN  {[thrown |-> TRUE], [thrown |-> FALSE, ok |-> FALSE]}
        \cup {[thrown |-> FALSE, ok |-> TRUE, data |-> Undefined, models |-> Undefined]}
        \cup {[thrown |-> FALSE, ok |-> TRUE,
               data |-> Arr([i \in DOMAIN l |-> [id |-> l[i]]]), models |-> Undefined] :
                l \in lists}
        \cup {[thrown |-> FALSE, ok |-> TRUE,
               data |-> Undefined, models |-> Arr([i \in DOMAIN l |-> [name |-> l[i]]])] :
                l \in lists}

\* Array.prototype.filter
RECURSIVE filterChat(_)
filterChat(list) ==
  IF list = << >> THEN << >>
  ELSE IF isChatModel(Head(list)) THEN <<Head(list)>> \o filterChat(Tail(list))
  ELSE filterChat(Tail(list))

listOllamaModels(endpoint, answer) ==
  IF answer.thrown THEN << >>
  ELSE IF ~answer.ok THEN << >>
  ELSE LET models == OrElse(answer.models, Arr(<< >>)).v
       IN  [i \in DOMAIN models |-> models[i].name]

listOpenAIModels(apiKey, answer) ==
  IF answer.thrown THEN << >>
  ELSE IF ~answer.ok THEN << >>
  ELSE LET models == OrElse(answer.data, Arr(<< >>)).v
           kept == filterChat(models)
       IN  sortById([i \in DOMAIN kept |->
                       AvailableModel(kept[i].id, kept[i].id,
                                      \/ includes(kept[i].id, vision)
                                      \/ includes(kept[i].id, gpt4)
                                      \/ includes(kept[i].id, gpt5))])

\* baseUrl of listOpenAICompatibleModels
listingBaseUrl(endpoint) ==
  LET stripped == stripTrailingSlashes(endpoint)
  IN  IF endsWith(stripped, v1) THEN SubSeq(stripped, 1, Len(stripped) - 3) ELSE stripped

listOpenAICompatibleModels(endpoint, apiKey, answer) ==
  IF answer.thrown THEN << >>
  ELSE IF ~answer.ok THEN << >>
  ELSE LET models == OrElse(answer.data, Arr(<< >>)).v
       IN  [i \in DOMAIN models |->
              AvailableModel(models[i].id, models[i].id,
                             \/ includes(toLowerCase(models[i].id), vision)
                             \/ includes(toLowerCase(models[i].id), llava))]

perplexityModels ==
  <<AvailableModel("sonar", "Sonar", FALSE),
    AvailableModel("sonar-pro", "Sonar Pro", FALSE),
    AvailableModel("sonar-reasoning", "Sonar Reasoning", FALSE),
    AvailableModel("sonar-reasoning-pro", "Sonar Reasoning Pro", FALSE),
    AvailableModel("sonar-deep-research", "Sonar Deep Research", FALSE)>>

\* listModels: fetched tells whether a request went out
listModels(provider, options, answer) ==
  CASE provider = "openai" ->
         IF missing(options.apiKey) THEN [fetched |-> FALSE, list |-> << >>]
         ELSE [fetched |-> TRUE, list |-> listOpenAIModels(options.apiKey, answer)]
    [] provider = "ollama" ->
         IF missing(options.endpoint) THEN [fetched |-> FALSE, list |-> << >>]
         ELSE LET ollamaModels == listOllamaModels(options.endpoint.v, answer)
              IN  [fetched |-> TRUE,
                   list |-> [i \in DOMAIN ollamaModels |->
                               AvailableModel(ollamaModels[i], ollamaModels[i],
                                  \/ includes(toLowerCase(ollamaModels[i]), llava)
                                  \/ includes(toLowerCase(ollamaModels[i]), vision)
                                  \/ includes(toLowerCase(ollamaModels[i]), bakllava))]]
    [] provider \in {"lm-studio", "generic-openai"} ->
         IF missing(options.endpoint) THEN [fetched |-> FALSE, list |-> << >>]
         ELSE [fetched |-> TRUE,
               list |-> listOpenAICompatibleModels(options.endpoint.v, options.apiKey, answer)]
    [] provider = "perplexity" -> [fetched |-> FALSE, list |-> perplexityModels]
    [] OTHER -> [fetched |-> FALSE, list |-> << >>]

ListingOptions ==
  [endpoint : {Undefined, Str(<< >>), Str(<<"h", "/">>)},
   apiKey : {Undefined, Str(""), Str("key")}]

ListingCalls ==
  {RegistryCall("listModels", [provider |-> p, options |-> o]) :
     p \in KnownProviders \cup {"other"}, o \in ListingOptions}
    \cup {RegistryCall("listOpenAIModels", [apiKey |-> Str("key")])}
    \cup {RegistryCall("listOpenAICompatibleModels", [endpoint |-> e, apiKey |-> k]) :
            e \in {<<"h">>, <<"h", "/", "v", "1", "/">>}, k \in {Undefined, Str("key")}}

InitListing ==
  /\ NoRequest
  /\ direct \in ListingCalls

ListModels ==
  /\ direct.fn = "listModels"
  /\ ~direct.done
  /\ \E answer \in ListingAnswers :
       direct' = [direct EXCEPT
                    !.done = TRUE,
                    !.answer = answer,
                    !.result = listModels(direct.args.provider, direct.args.options, answer)]
  /\ UNCHANGED orchestratorVars

ListOpenAI ==
  /\ direct.fn = "listOpenAIModels"
  /\ ~direct.done
  /\ \E answer \in ListingAnswers :
       direct' = [direct EXCEPT
                    !.done = TRUE,
                    !.answer = answer,
                    !.result = [fetched |-> TRUE,
                                list |-> listOpenAIModels(direct.args.apiKey, answer)]]
  /\ UNCHANGED orchestratorVars

ListCompatible ==
  /\ direct.fn = "listOpenAICompatibleModels"
  /\ ~direct.done
  /\ \E answer \in ListingAnswers :
       direct' = [direct EXCEPT
                    !.done = TRUE,
                    !.answer = answer,
                    !.result = [fetched |-> TRUE,
                                requested |-> listingBaseUrl(direct.args.endpoint)
                                                \o v1 \o <<"/", "m", "o", "d", "e", "l", "s">>,
                                list |-> listOpenAICompatibleModels(direct.args.endpoint,
                                                                    direct.args.apiKey,
                                                                    answer)]]
  /\ UNCHANGED orchestratorVars

NextListing ==
  \/ ListModels
  \/ ListOpenAI
  \/ ListCompatible

SpecListing == InitListing /\ [][NextListing]_vars

\* the listing came from the cloud OpenAI /v1/models endpoint
FromOpenAI ==
  \/ direct.fn = "listOpenAIModels"
  \/ direct.fn = "listModels" /\ direct.args.provider = "openai"

\* the listing came from an OpenAI-compatible /v1/models endpoint
FromCompatible ==
  \/ direct.fn = "listOpenAICompatibleModels"
  \/ direct.fn = "listModels" /\ direct.args.provider \in {"lm-studio", "generic-openai"}

\* the endpoint answered with a list of models
Listed ==
  /\ direct.done
  /\ direct.result.fetched
  /\ ~direct.answer.thrown
  /\ direct.answer.ok
  /\ IsArray(direct.answer.data)

ReturnedIds == {direct.answer.data.v[i].id : i \in DOMAIN direct.answer.data.v}

ListedIds == {direct.result.list[i].id : i \in DOMAIN direct.result.list}

\* the id belongs to a non-chat family, in any letter case
NonChatId(id) ==
  \/ \E i \in DOMAIN ExcludedWords : includes(toLowerCase(id), ExcludedWords[i])
  \/ startsWith(toLowerCase(id), ftPrefix)

\* C25: every model list obtained from a /v1/models endpoint, the cloud
\* OpenAI one or an OpenAI-compatible one, holds exactly the returned ids
\* that contain none of the excluded words and do not start with ft:
C25_ChatModelFilter ==
  (Listed /\ (FromOpenAI \/ FromCompatible)) =>
     ListedIds = {id \in ReturnedIds : ~NonChatId(id)}

\* the part of C25 that the cloud OpenAI listing satisfies
OpenAIListingFiltered ==
  (Listed /\ FromOpenAI) => ListedIds = {id \in ReturnedIds : ~NonChatId(id)}


\* the same JavaScript value: the same type and the same content
SameValue(a, b) == a.t = b.t /\ a = b

\* C26: whenever parseRecipeFromUrl invokes the text engine, the engine
\* receives the fetched HTML as its content, the request's URL as its url
\* and the caller's allergy list as its allergies, and a successfully
\* extracted recipe carries the request's URL
C26_EngineHandOff ==
  Called("extractRecipeWithAI") =>
    /\ aiArgs.html = html
    /\ SameValue(aiArgs.url, Str(url))
    /\ SameValue(aiArgs.allergies, allergies)
    /\ aiResult.success => SameValue(aiResult.data.url, Str(url))


\* ---------------------------------------------------------------------
\* Groceries procedures (server/trpc/routers/groceries/groceries.ts)
\* ---------------------------------------------------------------------

\* at most this many items in one create request
MaxBatch == 2

Num(n) == [t |-> "number", v |-> n]

\* s.trim()
RECURSIVE trim(_)
trim(s) ==
  IF Len(s) > 0 /\ Head(s) = " " THEN trim(Tail(s))
  ELSE IF Len(s) > 0 /\ s[Len(s)] = " " THEN trim(SubSeq(s, 1, Len(s) - 1))
  ELSE s

\* lines 44-46
normalizeGroceryName(name) == trim(toLowerCase(NullishCoalesce(name, Str(<< >>)).v))

ctxUser == "user-1"

\* the ids of the groceries of the table, and an id the table lacks
e1 == <<"old", 1>>
e2 == <<"old", 2>>
missingId == <<"old", 0>>

\* a row of the groceries table
Grocery(id, userId, name, unit, amount, isDone, storeId) ==
  [id |-> id, userId |-> userId, name |-> name, unit |-> unit, amount |-> amount,
   isDone |-> isDone, storeId |-> storeId, sortOrder |-> 0]

GroceryNames == {Null, Str(<<"a">>), Str(<<"A", " ">>)}
GroceryUnits == {Null, Str("g")}
GroceryAmounts == {Null, Num(2)}

\* the items of a create request (GroceryCreateSchema, optional fields
\* left out)
CreateItems == [name : GroceryNames, unit : GroceryUnits, amount : GroceryAmounts]

CreateInputs == SeqsUpTo(CreateItems, MaxBatch)

\* the groceries table before a request: empty, or one grocery of the
\* household or of a stranger, open or done
GroceryTables ==
  {<< >>}
    \cup {<<Grocery(e1, u, Str(<<"a">>), unit, amount, isDone, Null)>> :
            u \in {ctxUser, "stranger"}, unit \in GroceryUnits,
            amount \in {Null, Num(3)}, isDone \in BOOLEAN}
    \cup {<<Grocery(e1, ctxUser, Str(<<"a">>), Null, Num(3), isDone, Null),
            Grocery(e2, ctxUser, Null, Null, Null, TRUE, s)>> :
            isDone \in BOOLEAN, s \in {Null, Str("store-1")}}

\* listGroceriesByUsers(ctx.userIds, {includeDone}): the rows of the
\* household
RECURSIVE listGroceriesByUsers(_, _)
listGroceriesByUsers(table, includeDone) ==
  IF table = << >> THEN << >>
  ELSE IF Head(table).userId = ctxUser /\ (includeDone \/ ~Head(table).isDone)
       THEN <<Head(table)>> \o listGroceriesByUsers(Tail(table), includeDone)
       ELSE listGroceriesByUsers(Tail(table), includeDone)

\* Map.prototype.set
mapSet(map, key, value) ==
  [k \in DOMAIN map \cup {key} |-> IF k = key THEN value ELSE map[k]]

\* Map.prototype.get
mapGet(map, key) == IF key \in DOMAIN map THEN map[key] ELSE Undefined

emptyMap == [k \in {} |-> Undefined]

\* lines 77-87: existingByName
RECURSIVE buildExistingByName(_, _)
buildExistingByName(existingGroceries, map) ==
  IF existingGroceries = << >> THEN map
  ELSE LET grocery == Head(existingGroceries)
           normalizedName == normalizeGroceryName(grocery.name)
       IN  buildExistingByName(
             Tail(existingGroceries),
             IF Len(normalizedName) > 0 /\ ~grocery.isDone /\ normalizedName \notin DOMAIN map
             THEN mapSet(map, normalizedName, Obj(grocery))
             ELSE map)

\* crypto.randomUUID(): the k-th identifier made in a request
randomUUID(k) == <<"new", k>>

\* lines 109-110: shouldMerge
shouldMerge(existing, grocery) ==
  /\ Truthy(existing)
  /\ \/ existing.v.unit = grocery.unit
     \/ ~Truthy(existing.v.unit) /\ ~Truthy(grocery.unit)

\* lines 104-164: the loop over the input, from item i on
RECURSIVE createLoop(_, _, _, _)
createLoop(input, i, preference, acc) ==
  IF i > Len(input) THEN acc
  ELSE
    LET grocery == input[i]
        normalizedName == normalizeGroceryName(grocery.name)
        existing == IF Len(normalizedName) > 0
                    THEN mapGet(acc.existingByName, normalizedName)
                    ELSE Null
    IN  IF shouldMerge(existing, grocery)
        THEN
          LET existingAmount == NullishCoalesce(existing.v.amount, Num(1)).v
              newAmount == NullishCoalesce(grocery.amount, Num(1)).v
              mergedAmount == Num(existingAmount + newAmount)
          IN  createLoop(input, i + 1, preference,
                [acc EXCEPT
                   !.groceriesToUpdate = Append(@, [id |-> existing.v.id,
                                                    amount |-> mergedAmount]),
                   !.returnIds = Append(@, existing.v.id),
                   !.existingByName = mapSet(@, normalizedName,
                                             Obj([existing.v EXCEPT !.amount = mergedAmount]))])
        ELSE
          LET id == randomUUID(Len(acc.groceriesToCreate) + 1)
              storeId == IF Truthy(grocery.name) THEN preference ELSE Null
              created == Grocery(id, ctxUser, grocery.name, grocery.unit, grocery.amount,
                                 FALSE, storeId)
          IN  createLoop(input, i + 1, preference,
                [acc EXCEPT
                   !.groceriesToCreate = Append(@, created),
                   !.returnIds = Append(@, id),
                   !.existingByName = IF Len(normalizedName) > 0
                                      THEN mapSet(@, normalizedName, Obj(created))
                                      ELSE @])

\* updateGroceries(updates): every update is applied to the row with its
\* id; an update of an id the table lacks changes nothing
RECURSIVE updateGroceries(_, _)
updateGroceries(table, updates) ==
  IF updates = << >> THEN table
  ELSE LET u == Head(updates)
       IN  updateGroceries(
             [k \in DOMAIN table |->
                IF table[k].id = u.id
                THEN [f \in DOMAIN table[k] |->
                        IF f \in DOMAIN u THEN u[f] ELSE table[k][f]]
                ELSE table[k]],
             Tail(updates))

\* createGroceries(rows, ctx.userIds): the rows are inserted
createGroceries(table, rows) == table \o rows

\* deleteGroceryByIds(ids)
RECURSIVE deleteGroceryByIds(_, _)
deleteGroceryByIds(table, ids) ==
  IF table = << >> THEN << >>
  ELSE IF Head(table).id \in ids THEN deleteGroceryByIds(Tail(table), ids)
  ELSE <<Head(table)>> \o deleteGroceryByIds(Tail(table), ids)

\* getGroceryOwnerIds(ids): the owner of every id found
getGroceryOwnerIds(table, ids) ==
  LET found == {table[k].id : k \in DOMAIN table} \cap ids
  IN  [id \in found |-> table[CHOOSE k \in DOMAIN table : table[k].id = id].userId]

\* getGroceriesByIds(ids)
RECURSIVE getGroceriesByIds(_, _)
getGroceriesByIds(table, ids) ==
  IF table = << >> THEN << >>
  ELSE IF Head(table).id \in ids
       THEN <<Head(table)>> \o getGroceriesByIds(Tail(table), ids)
       ELSE getGroceriesByIds(Tail(table), ids)

\* assertHouseholdAccess(ctx.user.id, ownerId) lets the user through
hasHouseholdAccess(ownerId) == ownerId = ctxUser

\* what a piece of background work leaves behind: the table, the events
\* emitted to the household, and the error caught, if any
Success(table, events) == [table |-> table, emitted |-> events, error |-> "none"]
Failure(table, events, code) == [table |-> table, emitted |-> events, error |-> code]

\* a repository call of a background chain can reject
Faults == {"none", "read", "write"}

\* lines 167-178: the update of the merged groceries; its catch only logs
mergeWork(table, updates, fault) ==
  IF fault # "none" THEN Failure(table, << >>, "REPOSITORY")
  ELSE Success(updateGroceries(table, updates), <<"updated">>)

\* lines 181-195: the insertion of the new groceries
insertWork(table, rows, fault) ==
  IF fault # "none" THEN Failure(table, <<"failed">>, "REPOSITORY")
  ELSE Success(createGroceries(table, rows), <<"created">>)

\* lines 205-250: the chain of update
updateWork(table, input, fault) ==
  LET ownerIds == getGroceryOwnerIds(table, {input.groceryId})
      updateData == [id |-> input.groceryId, name |-> Str(<<"a">>), amount |-> Num(2),
                     unit |-> Str("g")]
  IN  IF fault = "read" THEN Failure(table, <<"failed">>, "REPOSITORY")
      ELSE IF input.groceryId \notin DOMAIN ownerIds
      THEN Failure(table, <<"failed">>, "NOT_FOUND")
      ELSE IF ~hasHouseholdAccess(ownerIds[input.groceryId])
      THEN Failure(table, <<"failed">>, "FORBIDDEN")
      ELSE IF ~input.valid THEN Failure(table, <<"failed">>, "BAD_REQUEST")
      ELSE IF fault = "write" THEN Failure(table, <<"failed">>, "REPOSITORY")
      ELSE Success(updateGroceries(table, <<updateData>>), <<"updated">>)

\* the groceries with isDone set (lines 281-284)
setDone(groceries, isDone) ==
  [k \in DOMAIN groceries |-> [id |-> groceries[k].id, isDone |-> isDone]]

\* lines 259-308: the chain of toggle
toggleWork(table, input, fault) ==
  LET ownerIds == getGroceryOwnerIds(table, input.groceryIds)
      groceries == getGroceriesByIds(table, input.groceryIds)
  IN  IF fault = "read" THEN Failure(table, <<"failed">>, "REPOSITORY")
      ELSE IF Cardinality(DOMAIN ownerIds) # Cardinality(input.groceryIds)
      THEN Failure(table, <<"failed">>, "NOT_FOUND")
      ELSE IF \E id \in DOMAIN ownerIds : ~hasHouseholdAccess(ownerIds[id])
      THEN Failure(table, <<"failed">>, "FORBIDDEN")
      ELSE IF Len(groceries) = 0 THEN Failure(table, <<"failed">>, "NOT_FOUND")
      ELSE IF ~input.valid THEN Failure(table, <<"failed">>, "BAD_REQUEST")
      ELSE IF fault = "write" THEN Failure(table, <<"failed">>, "REPOSITORY")
      ELSE Success(updateGroceries(table, setDone(groceries, input.isDone)), <<"updated">>)

\* lines 317-334: the chain of delete
deleteWork(table, input, fault) ==
  LET ownerIds == getGroceryOwnerIds(table, input.groceryIds)
  IN  IF fault = "read" THEN Failure(table, <<"failed">>, "REPOSITORY")
      ELSE IF \E id \in DOMAIN ownerIds : ~hasHouseholdAccess(ownerIds[id])
      THEN Failure(table, <<"failed">>, "FORBIDDEN")
      ELSE IF fault = "write" THEN Failure(table, <<"failed">>, "REPOSITORY")
      ELSE Success(deleteGroceryByIds(table, input.groceryIds), <<"deleted">>)

\* assignGroceryToStore(groceryId, storeId, ctx.userIds)
assignGroceryToStore(table, groceryId, storeId) ==
  [k \in DOMAIN table |->
     IF table[k].id = groceryId THEN [table[k] EXCEPT !.storeId = storeId] ELSE table[k]]

\* lines 353-401: the chain of assignToStore; the store preference is
\* saved after the grocery was assigned
assignWork(table, input, storeOwnerId, fault) ==
  LET ownerIds == getGroceryOwnerIds(table, {input.groceryId})
      assigned == assignGroceryToStore(table, input.groceryId, input.storeId)
      grocery == getGroceriesByIds(table, {input.groceryId})
  IN  IF fault = "read" THEN Failure(table, <<"failed">>, "REPOSITORY")
      ELSE IF input.groceryId \notin DOMAIN ownerIds
      THEN Failure(table, <<"failed">>, "NOT_FOUND")
      ELSE IF ~hasHouseholdAccess(ownerIds[input.groceryId])
      THEN Failure(table, <<"failed">>, "FORBIDDEN")
      ELSE IF Truthy(input.storeId) /\ ~Truthy(storeOwnerId)
      THEN Failure(table, <<"failed">>, "NOT_FOUND")
      ELSE IF Truthy(input.storeId) /\ ~hasHouseholdAccess(storeOwnerId.v)
      THEN Failure(table, <<"failed">>, "FORBIDDEN")
      ELSE IF fault = "write" THEN Failure(table, <<"failed">>, "REPOSITORY")
      ELSE IF /\ fault = "preference"
              /\ input.savePreference /\ Truthy(input.storeId) /\ Truthy(grocery[1].name)
      THEN Failure(assigned, <<"failed">>, "REPOSITORY")
      ELSE Success(assigned, <<"updated">>)

\* reorderGroceriesInStore(updates)
reorderGroceriesInStore(table, updates) == updateGroceries(table, updates)

\* lines 426-466: the chain of reorderInStore
reorderWork(table, input, fault) ==
  LET groceryIds == {input.updates[k].id : k \in DOMAIN input.updates}
      ownerIds == getGroceryOwnerIds(table, groceryIds)
      groceries == getGroceriesByIds(table, groceryIds)
      storeIds == {groceries[k].storeId : k \in DOMAIN groceries}
  IN  IF fault = "read" THEN Failure(table, <<"failed">>, "REPOSITORY")
      ELSE IF Cardinality(DOMAIN ownerIds) # Len(input.updates)
      THEN Failure(table, <<"failed">>, "NOT_FOUND")
      ELSE IF \E id \in DOMAIN ownerIds : ~hasHouseholdAccess(ownerIds[id])
      THEN Failure(table, <<"failed">>, "FORBIDDEN")
      ELSE IF Cardinality(storeIds) > 1 THEN Failure(table, <<"failed">>, "BAD_REQUEST")
      ELSE IF fault = "write" THEN Failure(table, <<"failed">>, "REPOSITORY")
      ELSE Success(reorderGroceriesInStore(table, input.updates), <<"updated">>)

\* the rows of the household in a store
InStore(row, storeId) == row.userId = ctxUser /\ row.storeId = storeId

\* markAllDoneInStore(ctx.userIds, storeId)
markAllDoneInStore(table, storeId) ==
  [k \in DOMAIN table |->
     IF InStore(table[k], storeId) /\ ~table[k].isDone
     THEN [table[k] EXCEPT !.isDone = TRUE]
     ELSE table[k]]

\* lines 481-496: the chain of markAllDone
markAllDoneWork(table, input, fault) ==
  LET after == markAllDoneInStore(table, input.storeId)
  IN  IF fault # "none" THEN Failure(table, <<"failed">>, "REPOSITORY")
      ELSE Success(after, IF after # table THEN <<"updated">> ELSE << >>)

\* deleteDoneInStore(ctx.userIds, storeId)
RECURSIVE deleteDoneInStore(_, _)
deleteDoneInStore(table, storeId) ==
  IF table = << >> THEN << >>
  ELSE IF InStore(Head(table), storeId) /\ Head(table).isDone
       THEN deleteDoneInStore(Tail(table), storeId)
       ELSE <<Head(table)>> \o deleteDoneInStore(Tail(table), storeId)

\* lines 511-524: the chain of deleteDone
deleteDoneWork(table, input, fault) ==
  LET after == deleteDoneInStore(table, input.storeId)
  IN  IF fault # "none" THEN Failure(table, <<"failed">>, "REPOSITORY")
      ELSE Success(after, IF after # table THEN <<"deleted">> ELSE << >>)

\* a call of a groceries procedure: the table it works on, the answer,
\* the background work started and not yet completed, what failed in the
\* background, and the events emitted to the household
GroceryCall(fn, input, table) ==
  [fn |-> fn, input |-> input, table |-> table, before |-> table,
   answered |-> FALSE, answer |-> Undefined, plan |-> Undefined,
   pending |-> {}, completed |-> << >>, failed |-> {}, events |-> << >>]

GroceryIdSets == {{}, {e1}, {e1, missingId}}

UpdateInputs == [groceryId : {e1, missingId}, valid : BOOLEAN]
ToggleInputs == [groceryIds : GroceryIdSets, isDone : BOOLEAN, valid : BOOLEAN]
DeleteInputs == [groceryIds : GroceryIdSets]
AssignInputs ==
  [groceryId : {e1, missingId}, storeId : {Null, Str("store-1")}, savePreference : BOOLEAN]
ReorderInputs ==
  [updates : {<< >>,
              <<[id |-> e1, sortOrder |-> 1]>>,
              <<[id |-> missingId, sortOrder |-> 1]>>,
              <<[id |-> e2, sortOrder |-> 1], [id |-> e1, sortOrder |-> 2]>>}]
StoreInputs == [storeId : {Null, Str("store-1")}]

GroceryInputs(fn) ==
  CASE fn = "create" -> CreateInputs
    [] fn = "update" -> UpdateInputs
    [] fn = "toggle" -> ToggleInputs
    [] fn = "delete" -> DeleteInputs
    [] fn = "assignToStore" -> AssignInputs
    [] fn = "reorderInStore" -> ReorderInputs
    [] fn \in {"markAllDone", "deleteDone"} -> StoreInputs

GroceryMutations ==
  {"create", "update", "toggle", "delete", "assignToStore", "reorderInStore",
   "markAllDone", "deleteDone"}

InitGroceries ==
  /\ NoRequest
  /\ \E fn \in GroceryMutations : \E input \in GroceryInputs(fn) : \E table \in GroceryTables :
       direct = GroceryCall(fn, input, table)

success == [success |-> TRUE]

\* the call once the procedure answered and left the tasks to the
\* background
Answered(call, answer, tasks, plan) ==
  [call EXCEPT !.answered = TRUE, !.answer = answer, !.pending = tasks, !.plan = plan]

\* the call once a background task completed with what it leaves behind
Settled(call, task, r) ==
  [call EXCEPT
     !.pending = @ \ {task},
     !.completed = Append(@, task),
     !.table = r.table,
     !.events = @ \o r.emitted,
     !.failed = IF r.error = "none" THEN @ ELSE @ \cup {[task |-> task, code |-> r.error]}]

\* lines 68-198: create, up to its answer
Create ==
  /\ direct.fn = "create"
  /\ ~direct.answered
  /\ UNCHANGED orchestratorVars
  /\ \E readFails \in BOOLEAN, preference \in {Null, Str("store-1")} :
    IF readFails
    THEN direct' = Answered(direct, [error |-> "INTERNAL_SERVER_ERROR"], {}, Undefined)
    ELSE
      LET existingGroceries == listGroceriesByUsers(direct.table, FALSE)
          acc == createLoop(direct.input, 1, preference,
                            [existingByName |-> buildExistingByName(existingGroceries, emptyMap),
                             groceriesToCreate |-> << >>,
                             groceriesToUpdate |-> << >>,
                             returnIds |-> << >>])
      IN  direct' = Answered(direct, acc.returnIds,
                 (IF Len(acc.groceriesToUpdate) > 0 THEN {"updateGroceries"} ELSE {})
                   \cup (IF Len(acc.groceriesToCreate) > 0 THEN {"createGroceries"} ELSE {}),
                 [groceriesToUpdate |-> acc.groceriesToUpdate,
                  groceriesToCreate |-> acc.groceriesToCreate])

\* lines 167-178
CreateMerge ==
  /\ direct.fn = "create"
  /\ "updateGroceries" \in direct.pending
  /\ \E fault \in {"none", "write"} :
       direct' = Settled(direct, "updateGroceries",
                         mergeWork(direct.table, direct.plan.groceriesToUpdate, fault))
  /\ UNCHANGED orchestratorVars

\* lines 181-195
CreateInsert ==
  /\ direct.fn = "create"
  /\ "createGroceries" \in direct.pending
  /\ \E fault \in {"none", "write"} :
       direct' = Settled(direct, "createGroceries",
                         insertWork(direct.table, direct.plan.groceriesToCreate, fault))
  /\ UNCHANGED orchestratorVars

Update ==
  /\ direct.fn = "update"
  /\ ~direct.answered
  /\ direct' = Answered(direct, success, {"work"}, Undefined)
  /\ UNCHANGED orchestratorVars

UpdateWork ==
  /\ direct.fn = "update"
  /\ "work" \in direct.pending
  /\ \E fault \in Faults :
       direct' = Settled(direct, "work",
                         updateWork(direct.table, direct.input, fault))
  /\ UNCHANGED orchestratorVars

Toggle ==
  /\ direct.fn = "toggle"
  /\ ~direct.answered
  /\ direct' = Answered(direct, success, {"work"}, Undefined)
  /\ UNCHANGED orchestratorVars

ToggleWork ==
  /\ direct.fn = "toggle"
  /\ "work" \in direct.pending
  /\ \E fault \in Faults :
       direct' = Settled(direct, "work",
                         toggleWork(direct.table, direct.input, fault))
  /\ UNCHANGED orchestratorVars

DeleteGroceries ==
  /\ direct.fn = "delete"
  /\ ~direct.answered
  /\ direct' = Answered(direct, success, {"work"}, Undefined)
  /\ UNCHANGED orchestratorVars

DeleteWork ==
  /\ direct.fn = "delete"
  /\ "work" \in direct.pending
  /\ \E fault \in Faults :
       direct' = Settled(direct, "work",
                         deleteWork(direct.table, direct.input, fault))
  /\ UNCHANGED orchestratorVars

AssignToStore ==
  /\ direct.fn = "assignToStore"
  /\ ~direct.answered
  /\ direct' = Answered(direct, success, {"work"}, Undefined)
  /\ UNCHANGED orchestratorVars

AssignWork ==
  /\ direct.fn = "assignToStore"
  /\ "work" \in direct.pending
  /\ \E fault \in Faults \cup {"preference"}, storeOwnerId \in {Null, Str(ctxUser), Str("stranger")} :
       direct' = Settled(direct, "work",
                         assignWork(direct.table, direct.input, storeOwnerId, fault))
  /\ UNCHANGED orchestratorVars

\* lines 405-468: no background work for an empty list of updates
ReorderInStore ==
  /\ direct.fn = "reorderInStore"
  /\ ~direct.answered
  /\ direct' = Answered(direct, success,
                        IF Len(direct.input.updates) = 0 THEN {} ELSE {"work"}, Undefined)
  /\ UNCHANGED orchestratorVars

ReorderWork ==
  /\ direct.fn = "reorderInStore"
  /\ "work" \in direct.pending
  /\ \E fault \in Faults :
       direct' = Settled(direct, "work",
                         reorderWork(direct.table, direct.input, fault))
  /\ UNCHANGED orchestratorVars

MarkAllDone ==
  /\ direct.fn = "markAllDone"
  /\ ~direct.answered
  /\ direct' = Answered(direct, success, {"work"}, Undefined)
  /\ UNCHANGED orchestratorVars

MarkAllDoneWork ==
  /\ direct.fn = "markAllDone"
  /\ "work" \in direct.pending
  /\ \E fault \in {"none", "write"} :
       direct' = Settled(direct, "work",
                         markAllDoneWork(direct.table, direct.input, fault))
  /\ UNCHANGED orchestratorVars

DeleteDone ==
  /\ direct.fn = "deleteDone"
  /\ ~direct.answered
  /\ direct' = Answered(direct, success, {"work"}, Undefined)
  /\ UNCHANGED orchestratorVars

DeleteDoneWork ==
  /\ direct.fn = "deleteDone"
  /\ "work" \in direct.pending
  /\ \E fault \in {"none", "write"} :
       direct' = Settled(direct, "work",
                         deleteDoneWork(direct.table, direct.input, fault))
  /\ UNCHANGED orchestratorVars

NextGroceries ==
  \/ Create
  \/ CreateMerge
  \/ CreateInsert
  \/ Update
  \/ UpdateWork
  \/ Toggle
  \/ ToggleWork
  \/ DeleteGroceries
  \/ DeleteWork
  \/ AssignToStore
  \/ AssignWork
  \/ ReorderInStore
  \/ ReorderWork
  \/ MarkAllDone
  \/ MarkAllDoneWork
  \/ DeleteDone
  \/ DeleteDoneWork

SpecGroceries == InitGroceries /\ [][NextGroceries]_vars


\* the procedure answered and all its background work completed
BackgroundDone == direct.answered /\ direct.pending = {}

\* items i and j of the create request have the same normalized name, not
\* empty, and the same unit
Duplicates(i, j) ==
  /\ Len(normalizeGroceryName(direct.input[i].name)) > 0
  /\ normalizeGroceryName(direct.input[i].name) = normalizeGroceryName(direct.input[j].name)
  /\ direct.input[i].unit = direct.input[j].unit

\* no open grocery of the household had the name of item i before the
\* request
NoneBefore(i) ==
  \A k \in DOMAIN direct.before :
    \/ direct.before[k].userId # ctxUser
    \/ direct.before[k].isDone
    \/ normalizeGroceryName(direct.before[k].name) # normalizeGroceryName(direct.input[i].name)

\* the sum of the amounts of the duplicates of item i among the items
\* from k on, a null amount counting as 1
RECURSIVE SumOfDuplicates(_, _)
SumOfDuplicates(i, k) ==
  IF k > Len(direct.input) THEN 0
  ELSE (IF k = i \/ Duplicates(i, k)
        THEN NullishCoalesce(direct.input[k].amount, Num(1)).v
        ELSE 0) + SumOfDuplicates(i, k + 1)

\* the grocery with the id holds the amount
Persisted(id, amount) ==
  \E k \in DOMAIN direct.table : direct.table[k].id = id /\ direct.table[k].amount = amount

\* a create request whose reads and whose background work succeeded
CreateSucceeded ==
  /\ direct.fn = "create"
  /\ BackgroundDone
  /\ direct.plan # Undefined
  /\ direct.failed = {}

\* items i and j were merged into one grocery holding the sum of the
\* amounts of the duplicates
Merged(i, j) ==
  /\ direct.answer[i] = direct.answer[j]
  /\ Persisted(direct.answer[i], Num(SumOfDuplicates(i, 1)))

\* C27: the duplicates inside one create request, no matching open
\* grocery existing before, are merged into a single grocery whose
\* persisted amount is the sum of their amounts once the background work
\* has completed, in every order of completion
C27_BatchDuplicatesMerged ==
  CreateSucceeded =>
    \A i, j \in DOMAIN direct.input :
      (i < j /\ Duplicates(i, j) /\ NoneBefore(i)) => Merged(i, j)

\* the merge of C27 when the insertion completes before the update
MergedWhenCreatedFirst ==
  (CreateSucceeded /\ direct.completed = <<"createGroceries", "updateGroceries">>) =>
    \A i, j \in DOMAIN direct.input :
      (i < j /\ Duplicates(i, j) /\ NoneBefore(i)) => Merged(i, j)

\* the number of events of a kind emitted to the household
RECURSIVE CountEvents(_, _)
CountEvents(events, kind) ==
  IF events = << >> THEN 0
  ELSE (IF Head(events) = kind THEN 1 ELSE 0) + CountEvents(Tail(events), kind)

\* C28: every grocery mutation answers before its repository work
\* completes, and every failure of its background work is reported to
\* the household by a "failed" event
C28_FailureNotification ==
  /\ direct.completed # << >> => direct.answered
  /\ CountEvents(direct.events, "failed") >= Cardinality(direct.failed)

\* the failures of C28 other than the one of the merging update of create
FailureNotifiedExceptMerge ==
  CountEvents(direct.events, "failed")
    >= Cardinality({f \in direct.failed : f.task # "updateGroceries"})


\* ---------------------------------------------------------------------
\* Calendar drag and drop (the hook useCalendarDnd)
\* ---------------------------------------------------------------------

\* at most this many drag-over events in one drag
MaxDragOvers == 3

\* an id is the sequence of its parts between underscores: a container id
\* is <<date, slot>>, an item id has one part
containerIdOf(date, slot) == <<date, slot>>

\* lines 22-30
parseContainerId(id) ==
  IF Len(id) < 2 THEN Null
  ELSE Obj([date |-> SubSeq(id, 1, Len(id) - 1), slot |-> id[Len(id)]])

slots == <<"Breakfast", "Lunch", "Dinner", "Snack">>

CalendarItem(id, slot) == [id |-> <<id>>, slot |-> slot, itemType |-> "recipe"]

\* plannedItemsByDate of the calendar context
PlannedItems ==
  {  [d \in {"d1", "d2"} |->
        IF d = "d1"
        THEN <<CalendarItem("a", "Breakfast"), CalendarItem("b", "Breakfast"),
               CalendarItem("c", "Lunch")>>
        ELSE << >>],
     [d \in {"d1", "d2"} |->
        IF d = "d1"
        THEN <<CalendarItem("a", "Breakfast")>>
        ELSE <<CalendarItem("b", "Breakfast"), CalendarItem("c", "Dinner")>>]  }

\* the ids of the items with the slot, in their order
RECURSIVE idsOfSlot(_, _)
idsOfSlot(dateItems, slot) ==
  IF dateItems = << >> THEN << >>
  ELSE (IF Head(dateItems).slot = slot THEN <<Head(dateItems).id>> ELSE << >>)
         \o idsOfSlot(Tail(dateItems), slot)

\* lines 32-47
buildItemsState(plannedItemsByDate) ==
  [c \in {containerIdOf(d, slots[k]) : d \in DOMAIN plannedItemsByDate, k \in DOMAIN slots}
     |-> idsOfSlot(plannedItemsByDate[c[1]], c[2])]

\* array.includes(x)
arrayIncludes(array, x) == \E k \in DOMAIN array : array[k] = x

\* array.indexOf(x), counted from 0
indexOf(array, x) ==
  IF arrayIncludes(array, x)
  THEN (CHOOSE k \in DOMAIN array : array[k] = x /\ \A m \in 1..(k - 1) : array[m] # x) - 1
  ELSE -1

\* array.slice(from, to) and array.slice(from), counted from 0
slice(array, from, to) ==
  LET lo == IF from > Len(array) THEN Len(array) ELSE from
      hi == IF to > Len(array) THEN Len(array) ELSE to
  IN  SubSeq(array, lo + 1, hi)

\* array.filter(item => item !== x)
RECURSIVE without(_, _)
without(array, x) ==
  IF array = << >> THEN << >>
  ELSE (IF Head(array) # x THEN <<Head(array)>> ELSE << >>) \o without(Tail(array), x)

\* array.splice(at, 1) leaves this array behind
removeAt(array, at) == slice(array, 0, at) \o slice(array, at + 1, Len(array))

\* arrayMove of @dnd-kit/sortable: the element at from is spliced out and
\* spliced in at to, a negative index counting from the end
arrayMove(array, from, to) ==
  LET start == IF from < 0 THEN (IF Len(array) + from < 0 THEN 0 ELSE Len(array) + from)
               ELSE from
      rest == removeAt(array, start)
      target == IF to < 0 THEN Len(array) + to ELSE to
  IN  IF start >= Len(array) THEN array
      ELSE slice(rest, 0, target) \o <<array[start + 1]>> \o slice(rest, target, Len(rest))

\* the dates of the calendar, in the order of their keys
dates == <<"d1", "d2", "d9">>

\* the place of a container among the keys of the items: the containers
\* of buildItemsState by date and slot, a container added later after them
keyRank(c) == indexOf(dates, c[1]) * Len(slots) + indexOf(slots, c[2])

\* Object.keys(items).find(key => items[key].includes(id))
firstKeyWith(items, id) ==
  LET keys == {c \in DOMAIN items : arrayIncludes(items[c], id)}
  IN  IF keys = {} THEN Undefined
      ELSE Str(CHOOSE c \in keys : \A other \in keys : keyRank(c) <= keyRank(other))

\* lines 49-54
findContainerForItem(itemId, items) == firstKeyWith(items, itemId)

\* lines 107-115, with the items of the render the callback was made in
findContainer(id, items) ==
  IF id \in DOMAIN items THEN Str(id)
  ELSE IF Truthy(parseContainerId(id)) THEN Str(id)
  ELSE firstKeyWith(items, id)

\* items[key] ?? []
itemsOf(items, key) == IF key \in DOMAIN items THEN items[key] ELSE << >>

\* lines 179-209: the updater of a move between containers
moveBetween(prevItems, activeId, overId, activeContainer, overContainer, isBelowOverItem) ==
  LET activeItems == itemsOf(prevItems, activeContainer)
      overItems == itemsOf(prevItems, overContainer)
      overIndex == indexOf(overItems, overId)
      modifier == IF isBelowOverItem THEN 1 ELSE 0
      newIndex == IF overId \in DOMAIN prevItems THEN Len(overItems)
                  ELSE IF overIndex >= 0 THEN overIndex + modifier
                  ELSE Len(overItems)
  IN  mapSet(mapSet(prevItems, activeContainer, without(activeItems, activeId)),
             overContainer,
             slice(overItems, 0, newIndex) \o <<activeId>>
               \o slice(overItems, newIndex, Len(overItems)))

\* lines 211-224: the updater of a reorder within one container
reorderWithin(prevItems, activeId, overId, activeContainer) ==
  LET containerItems == itemsOf(prevItems, activeContainer)
      activeIndex == indexOf(containerItems, activeId)
      overIndex == indexOf(containerItems, overId)
  IN  IF activeIndex # overIndex /\ overIndex >= 0
      THEN mapSet(prevItems, activeContainer, arrayMove(containerItems, activeIndex, overIndex))
      ELSE prevItems

\* the hook after its first render: the state (activeId, overContainerId,
\* items), the refs (clonedItems, recentlyMovedToNewContainer), the items
\* of the last render, which the callbacks see, and the calls made to the
\* calendar context
CalendarHook(plannedItemsByDate) ==
  [fn |-> "useCalendarDnd",
   plannedItemsByDate |-> plannedItemsByDate,
   items |-> buildItemsState(plannedItemsByDate),
   rendered |-> buildItemsState(plannedItemsByDate),
   activeId |-> Null,
   overContainerId |-> Null,
   clonedItems |-> Null,
   recentlyMovedToNewContainer |-> FALSE,
   phase |-> "idle",
   dragged |-> Null,
   startItems |-> Null,
   dragOvers |-> 0,
   staleEvents |-> 0,
   updates |-> << >>]

InitCalendar ==
  /\ NoRequest
  /\ \E p \in PlannedItems : direct = CalendarHook(p)

\* the ids of the planned items
ItemIds(plannedItemsByDate) ==
  UNION {{plannedItemsByDate[d][k].id : k \in DOMAIN plannedItemsByDate[d]} :
           d \in DOMAIN plannedItemsByDate}

\* what the pointer can be over: a container of the calendar, a
\* container of a date without planned items, an item, or nothing
OverTargets ==
  {Null} \cup {Str(id) : id \in DOMAIN direct.items
                                  \cup {containerIdOf("d9", "Lunch")}
                                  \cup ItemIds(direct.plannedItemsByDate)}

\* lines 150-163
DragStart ==
  /\ direct.fn = "useCalendarDnd"
  /\ direct.phase = "idle"
  /\ \E id \in ItemIds(direct.plannedItemsByDate) :
       direct' = [direct EXCEPT
                    !.activeId = Str(id),
                    !.clonedItems = Obj(direct.rendered),
                    !.overContainerId =
                       NullishCoalesce(findContainerForItem(id, direct.rendered), Null),
                    !.phase = "dragging",
                    !.dragged = Str(id),
                    !.startItems = Obj(direct.items)]
  /\ UNCHANGED orchestratorVars

\* lines 165-228: handleDragOver sees the items of the last render
handleDragOver(hook, over, isBelowOverItem) ==
  LET activeId == hook.dragged.v
      overContainer == findContainer(over.v, hook.rendered)
      activeContainer == findContainer(activeId, hook.rendered)
  IN  IF over = Null THEN hook
      ELSE IF activeId = over.v THEN hook
      ELSE IF ~Truthy(overContainer) \/ ~Truthy(activeContainer) THEN hook
      ELSE IF activeContainer # overContainer
      THEN [hook EXCEPT
              !.overContainerId = overContainer,
              !.recentlyMovedToNewContainer = TRUE,
              !.items = moveBetween(@, activeId, over.v, activeContainer.v, overContainer.v,
                                    isBelowOverItem)]
      ELSE [hook EXCEPT
              !.overContainerId = overContainer,
              !.items = reorderWithin(@, activeId, over.v, activeContainer.v)]

DragOver ==
  /\ direct.fn = "useCalendarDnd"
  /\ direct.phase = "dragging"
  /\ direct.dragOvers < MaxDragOvers
  /\ \E over \in OverTargets, isBelowOverItem \in BOOLEAN :
       direct' = [handleDragOver(direct, over, isBelowOverItem) EXCEPT
                    !.dragOvers = @ + 1,
                    !.staleEvents = IF direct.rendered # direct.items THEN @ + 1 ELSE @]
  /\ UNCHANGED orchestratorVars

\* the hook renders again: the callbacks are made anew with the items of
\* the state
Render ==
  /\ direct.fn = "useCalendarDnd"
  /\ direct.rendered # direct.items
  /\ direct' = [direct EXCEPT !.rendered = direct.items]
  /\ UNCHANGED orchestratorVars

\* the planned item with the id (lines 265-276)
plannedItem(plannedItemsByDate, id) ==
  LET found == UNION {{plannedItemsByDate[d][k] :
                         k \in {m \in DOMAIN plannedItemsByDate[d] :
                                  plannedItemsByDate[d][m].id = id}} :
                       d \in DOMAIN plannedItemsByDate}
  IN  IF found = {} THEN Undefined ELSE Obj(CHOOSE item \in found : TRUE)

\* lines 247-296: the calls of handleDragEnd for a drop on a target
dropCalls(hook, originalItems) ==
  LET activeIdStr == hook.dragged.v
      currentContainer == findContainer(activeIdStr, hook.rendered)
      originalContainer == IF Truthy(originalItems)
                           THEN findContainerForItem(activeIdStr, originalItems.v)
                           ELSE Undefined
      originalParsed == IF Truthy(originalContainer)
                        THEN parseContainerId(originalContainer.v) ELSE Null
      currentParsed == IF Truthy(currentContainer)
                       THEN parseContainerId(currentContainer.v) ELSE Null
      originalItem == plannedItem(hook.plannedItemsByDate, activeIdStr)
  IN  IF ~Truthy(currentContainer) \/ ~Truthy(originalItems) THEN << >>
      ELSE IF ~Truthy(originalContainer) THEN << >>
      ELSE IF ~Truthy(originalParsed) \/ ~Truthy(currentParsed) THEN << >>
      ELSE IF originalContainer = currentContainer THEN << >>
      ELSE IF ~Truthy(originalItem) THEN << >>
      ELSE IF originalParsed.v.date # currentParsed.v.date
              /\ originalParsed.v.slot = currentParsed.v.slot
      THEN <<[fn |-> "updateItemDate",
              args |-> <<activeIdStr, originalParsed.v.date, currentParsed.v.date,
                         originalItem.v.itemType>>]>>
      ELSE <<[fn |-> "updateItemSlot",
              args |-> <<activeIdStr, currentParsed.v.date, currentParsed.v.slot,
                         originalItem.v.itemType>>]>>

\* lines 230-299
DragEnd ==
  /\ direct.fn = "useCalendarDnd"
  /\ direct.phase = "dragging"
  /\ \E over \in OverTargets :
       LET originalItems == direct.clonedItems
       IN  direct' = [direct EXCEPT
                        !.activeId = Null,
                        !.overContainerId = Null,
                        !.clonedItems = Null,
                        !.items = IF over = Null /\ Truthy(originalItems)
                                  THEN originalItems.v ELSE @,
                        !.updates = IF over = Null THEN @
                                    ELSE @ \o dropCalls(direct, originalItems),
                        !.phase = IF over = Null THEN "endedWithoutTarget" ELSE "dropped"]
  /\ UNCHANGED orchestratorVars

\* the cancellation that leaves the items as the drag-over events made them
DragCancel_KeepItems ==
  /\ direct.fn = "useCalendarDnd"
  /\ direct.phase = "dragging"
  /\ direct' = [direct EXCEPT
                  !.activeId = Null,
                  !.overContainerId = Null,
                  !.clonedItems = Null,
                  !.phase = "cancelled"]
  /\ UNCHANGED orchestratorVars

\* lines 301-308
DragCancel ==
  /\ direct.fn = "useCalendarDnd"
  /\ direct.phase = "dragging"
  /\ direct' = [direct EXCEPT
                  !.items = IF Truthy(direct.clonedItems) THEN direct.clonedItems.v ELSE @,
                  !.activeId = Null,
                  !.overContainerId = Null,
                  !.clonedItems = Null,
                  !.phase = "cancelled"]
  /\ UNCHANGED orchestratorVars

NextCalendar ==
  \/ DragStart
  \/ DragOver
  \/ Render
  \/ DragEnd
  \/ DragCancel

SpecCalendar == InitCalendar /\ [][NextCalendar]_vars

\* the number of places an item id has in the container lists
Occurrences(items, id) ==
  Cardinality(UNION {{<<c, k>> : k \in {m \in DOMAIN items[c] : items[c][m] = id}} :
                       c \in DOMAIN items})

\* a drag is going on
Dragging == direct.phase = "dragging"

\* C29: after handleDragStart and any sequence of handleDragOver events,
\* several of them handled before the hook renders again included, every
\* calendar item id is in exactly one container list, exactly once
C29_ExactlyOneContainer ==
  Dragging =>
    \A id \in ItemIds(direct.plannedItemsByDate) : Occurrences(direct.items, id) = 1

\* the invariant of C29 when the hook rendered before every drag-over
\* event
ExactlyOneWhenRendered ==
  (Dragging /\ direct.staleEvents = 0) =>
    \A id \in ItemIds(direct.plannedItemsByDate) : Occurrences(direct.items, id) = 1

\* the drag was aborted: cancelled, or ended without a drop target
Aborted == direct.phase \in {"cancelled", "endedWithoutTarget"}

====
